---------------------------- MODULE Spec2Model ----------------------------
(***************************************************************************)
(* A model of the ReAct agent loop (src/src/agent/react-agent.ts), of its  *)
(* prompt rendering (src/src/prompts/react-prompt.ts) and of its tool      *)
(* registry (src/src/tools/base.ts).                                       *)
(*                                                                         *)
(* Texts are TLA+ strings, built with \o as the source builds them with    *)
(* template literals.  The source's Chinese literals are written here in   *)
(* ASCII (TLA+ strings are ASCII); each keeps its place in its template,   *)
(* and the literals of the conversation memory, whose summaries are cut by *)
(* length, keep their length in UTF-16 code units.                         *)
(* A JavaScript value that may be undefined, null, a string or a number is *)
(* a record [t, s, n]: its type tag, its string and its number.            *)
(***************************************************************************)
EXTENDS Integers, Sequences, FiniteSets, TLC

\* ------------------------------------------------------------------ bounds
\* config.maxIterations ranges over 1..MaxIterations
MaxIterations == 3
\* config.maxHistoryRounds ranges over 1..MaxHistoryRounds
MaxHistoryRounds == 1
\* model calls made in one behaviour, over all its runs
MaxCalls == 3
\* run() calls made in one behaviour
MaxRuns == 2

\* ------------------------------------------------------- JavaScript values
\* in the memory specification config.maxHistoryRounds ranges over
\* 1..MaxMemoryRounds
MaxMemoryRounds == 3
\* and at most MaxRecords exchanges are saved between two empty histories
MaxRecords == 5
\* in the specification of getHistory's callers at most MaxCopyRecords exchanges
\* are saved
MaxCopyRecords == 2
MaxObservations == 2
MaxObservedRecords == 1

JUndef == [t |-> "undefined", s |-> "", n |-> 0]
JNull == [t |-> "null", s |-> "", n |-> 0]
JStr(x) == [t |-> "string", s |-> x, n |-> 0]
JNum(k) == [t |-> "number", s |-> "", n |-> k]

\* the truthiness test of `if (v)` and of `v || d`
Truthy(v) == (v.t = "string" /\ v.s # "") \/ (v.t = "number" /\ v.n # 0)

\* `v == null`, the test behind `v ?? d` and `v != null`
Nullish(v) == v.t \in {"undefined", "null"}

\* String(v), also what a template literal does to ${v}
String(v) ==
  CASE v.t = "string" -> v.s
    [] v.t = "number" -> ToString(v.n)
    [] OTHER -> v.t

\* JSON.stringify(v): undefined for undefined, else the JSON text
JSONstringify(v) ==
  CASE v.t = "undefined" -> JUndef
    [] v.t = "string" -> JStr("\"" \o v.s \o "\"")
    [] v.t = "number" -> JStr(ToString(v.n))
    [] OTHER -> JStr("null")

\* does text s hold text sub
Contains(s, sub) ==
  \E i \in 1..(Len(s) - Len(sub) + 1) : SubSeq(s, i, i + Len(sub) - 1) = sub

RECURSIVE Join(_, _)
\* Array.prototype.join
Join(names, sep) ==
  IF Len(names) = 0 THEN ""
  ELSE IF Len(names) = 1 THEN names[1]
  ELSE names[1] \o sep \o Join(Tail(names), sep)

\* ------------------------------------------------------------ the registry
\* the tools registered at startup, in registration order
tools ==
  << [name |-> "calculator", description |-> "evaluates arithmetic"],
     [name |-> "read_file", description |-> "reads a file"] >>

\* Map.has on a registry's map, its entries in insertion order
has(map, name) == \E i \in 1..Len(map) : map[i].name = name

\* what ToolRegistry.get returns for a name that is not a key: undefined
NoTool == [found |-> FALSE, tool |-> [name |-> "", description |-> ""]]

\* ToolRegistry.get on a registry's map
get(map, name) ==
  IF has(map, name)
    THEN [found |-> TRUE,
          tool |-> map[CHOOSE i \in 1..Len(map) : map[i].name = name]]
  ELSE NoTool

\* ToolRegistry.getAll on a registry's map
getAll(map) == map

\* a getNames that lists the newest tool first
getNamesNewestFirst(map) == [i \in 1..Len(map) |-> map[Len(map) + 1 - i].name]

\* ToolRegistry.getNames on a registry's map
getNamesOf(map) == [i \in 1..Len(map) |-> map[i].name]

\* ToolRegistry.getNames of the agent's registry
getNames == getNamesOf(tools)

\* ToolRegistry.get: is a tool registered under the name
registryHas(name) == has(tools, name)

\* Tool.getDescription, the schema rendered as the empty placeholder
getDescription(tool) ==
  tool.name \o ": " \o tool.description \o "\nparams: {}"

\* ToolRegistry.getDescriptions on a registry's map
getDescriptionsOf(map) ==
  Join([i \in 1..Len(getAll(map)) |-> getDescription(getAll(map)[i])], "\n\n")

\* ToolRegistry.getDescriptions of the agent's registry
getDescriptions == getDescriptionsOf(tools)

\* ------------------------------------------------------------- the prompts
\* generateSystemPrompt
generateSystemPrompt(toolDescriptions, toolNames) ==
  "You are an agent. Tools:\n\n" \o toolDescriptions
    \o "\n\nRules: answer in JSON. Tool names: " \o Join(toolNames, ", ")

\* one step of generateUserMessage's forEach
renderStep(step, index) ==
  "[step " \o ToString(index) \o "]\n"
    \o "thought: " \o step.thought \o "\n"
    \o (IF Truthy(step.action)
          THEN "action: " \o String(step.action) \o "\n"
                 \o "input: " \o String(JSONstringify(step.actionInput)) \o "\n"
                 \o "observation: " \o String(step.observation) \o "\n"
          ELSE "")
    \o "-----\n\n"

RECURSIVE renderSteps(_, _)
\* the forEach of generateUserMessage, from step `index` on
renderSteps(previousSteps, index) ==
  IF index > Len(previousSteps) THEN ""
  ELSE renderStep(previousSteps[index], index)
         \o renderSteps(previousSteps, index + 1)

\* generateUserMessage
generateUserMessage(q, previousSteps) ==
  "question: " \o q \o "\n\n"
    \o (IF Len(previousSteps) > 0
          THEN "history of this question (" \o ToString(Len(previousSteps))
                 \o " steps):\n\n" \o renderSteps(previousSteps, 1)
                 \o "reminder: do not repeat an action\n"
          ELSE "")

\* the calls of formatObservation a caller has made: the arguments, the string
\* returned, and how many messages the agent held at the call
VARIABLE observations

\* a formatObservation that numbers its calls
formatObservationNumbered(toolName, success, data, error) ==
  "#" \o ToString(Len(observations) + 1) \o " tool [" \o toolName \o "] "
    \o (IF success
          THEN "succeeded. result: "
                 \o (IF data.t = "string" THEN data.s
                     ELSE String(JSONstringify(data)))
        ELSE "failed. error: " \o String(error))

\* formatObservation
formatObservation(toolName, success, data, error) ==
  IF success
    THEN LET resultStr ==
               IF data.t = "string" THEN data.s ELSE String(JSONstringify(data))
         IN IF toolName = "calculator"
              THEN "calculation done! result: " \o resultStr
                     \o "\n\nnext: answer, or go on; never call calculator again with the same input"
              ELSE "tool [" \o toolName \o "] succeeded. result: " \o resultStr
    ELSE "tool [" \o toolName \o "] failed. error: " \o String(error)


\* ------------------------------------------------------ conversation memory
\* the marker the summary looks for in an assistant message
AnswerMarker == "AN:"

\* the characters \s matches and trim() removes
IsSpace(c) == c \in {" ", "\n", "\t"}

RECURSIVE TrimStart(_)
TrimStart(s) ==
  IF Len(s) > 0 /\ IsSpace(SubSeq(s, 1, 1)) THEN TrimStart(SubSeq(s, 2, Len(s)))
  ELSE s

RECURSIVE TrimEnd(_)
TrimEnd(s) ==
  IF Len(s) > 0 /\ IsSpace(SubSeq(s, Len(s), Len(s)))
    THEN TrimEnd(SubSeq(s, 1, Len(s) - 1))
  ELSE s

\* String.prototype.trim
Trim(s) == TrimEnd(TrimStart(s))

\* s.length > cap ? s.substring(0, cap) + "..." : s
Truncate(s, cap) == IF Len(s) > cap THEN SubSeq(s, 1, cap) \o "..." ELSE s

\* the places where the marker matches with at least one character after it
MarkerPlaces(content) ==
  { i \in 1..(Len(content) - Len(AnswerMarker)) :
      SubSeq(content, i, i + Len(AnswerMarker) - 1) = AnswerMarker }

\* the answer a summary entry shows for an assistant message: the text after
\* the first marker, trimmed, or the whole message when no marker matches
extractAnswer(answerContent) ==
  LET places == MarkerPlaces(answerContent)
  IN IF places = {} THEN answerContent
     ELSE LET first == CHOOSE i \in places : \A j \in places : i <= j
          IN Trim(SubSeq(answerContent, first + Len(AnswerMarker),
                         Len(answerContent)))

RECURSIVE summaryEntries(_, _)
\* the pair loop of generateHistorySummary, from message i (1-based, odd) on
summaryEntries(messages, i) ==
  IF i > Len(messages) THEN ""
  ELSE IF i + 1 > Len(messages) THEN ""
  ELSE "# " \o ToString(((i - 1) \div 2) + 1) \o " r - Q: "
         \o Truncate(messages[i].content, 80)
         \o "\n         A: "
         \o Truncate(extractAnswer(messages[i + 1].content), 100)
         \o "\n\n" \o summaryEntries(messages, i + 2)

\* generateHistorySummary
generateHistorySummary(messages, rounds) ==
  "early rounds (" \o ToString(rounds)
    \o " cut):\n\n" \o summaryEntries(messages, 1)
    \o "note: digest of the early rounds only."

\* a compressHistoryIfNeeded that keeps as many recent messages as the limit allows
compressHistoryKeepsLimit(history, rounds) ==
  LET maxMessages == rounds * 2
      keepRecentMessages == maxMessages
      compressCount == Len(history) - keepRecentMessages
      compressRounds == compressCount \div 2
      messagesToCompress == compressRounds * 2
      toCompress == SubSeq(history, 1, messagesToCompress)
      toKeep == SubSeq(history, messagesToCompress + 1, Len(history))
  IN IF Len(history) <= maxMessages THEN history
     ELSE IF messagesToCompress < 2 THEN history
     ELSE << [role |-> "assistant",
              content |-> generateHistorySummary(toCompress, compressRounds)] >>
            \o toKeep

\* a compressHistoryIfNeeded that cuts where the count falls, whole rounds or not
compressHistoryOddCut(history, rounds) ==
  LET maxMessages == rounds * 2
      keepRecentMessages == (maxMessages * 6) \div 10
      compressCount == Len(history) - keepRecentMessages
      compressRounds == compressCount \div 2
      messagesToCompress == compressCount
      toCompress == SubSeq(history, 1, messagesToCompress)
      toKeep == SubSeq(history, messagesToCompress + 1, Len(history))
  IN IF Len(history) <= maxMessages THEN history
     ELSE IF messagesToCompress < 2 THEN history
     ELSE << [role |-> "assistant",
              content |-> generateHistorySummary(toCompress, compressRounds)] >>
            \o toKeep

\* a compressHistoryIfNeeded that already compresses a history at its limit
compressHistoryAtLimit(history, rounds) ==
  LET maxMessages == rounds * 2
      keepRecentMessages == (maxMessages * 6) \div 10
      compressCount == Len(history) - keepRecentMessages
      compressRounds == compressCount \div 2
      messagesToCompress == compressRounds * 2
      toCompress == SubSeq(history, 1, messagesToCompress)
      toKeep == SubSeq(history, messagesToCompress + 1, Len(history))
  IN IF Len(history) < maxMessages THEN history
     ELSE IF messagesToCompress < 2 THEN history
     ELSE << [role |-> "assistant",
              content |-> generateHistorySummary(toCompress, compressRounds)] >>
            \o toKeep

\* a compressHistoryIfNeeded that keeps 40% of the limit
compressHistoryKeepsLess(history, rounds) ==
  LET maxMessages == rounds * 2
      keepRecentMessages == (maxMessages * 4) \div 10
      compressCount == Len(history) - keepRecentMessages
      compressRounds == compressCount \div 2
      messagesToCompress == compressRounds * 2
      toCompress == SubSeq(history, 1, messagesToCompress)
      toKeep == SubSeq(history, messagesToCompress + 1, Len(history))
  IN IF Len(history) <= maxMessages THEN history
     ELSE IF messagesToCompress < 2 THEN history
     ELSE << [role |-> "assistant",
              content |-> generateHistorySummary(toCompress, compressRounds)] >>
            \o toKeep

\* a compressHistoryIfNeeded that leaves an earlier summary message in front and
\* puts the new one behind it
compressHistorySparesSummary(history, rounds) ==
  LET maxMessages == rounds * 2
      keepRecentMessages == (maxMessages * 6) \div 10
      compressCount == Len(history) - keepRecentMessages
      compressRounds == compressCount \div 2
      messagesToCompress == compressRounds * 2
      toCompress == SubSeq(history, 1, messagesToCompress)
      toKeep == SubSeq(history, messagesToCompress + 1, Len(history))
  IN IF Len(history) <= maxMessages THEN history
     ELSE IF messagesToCompress < 2 THEN history
     ELSE IF history[1].role = "assistant"
       THEN << history[1],
               [role |-> "assistant",
                content |-> generateHistorySummary(
                              SubSeq(history, 2, messagesToCompress),
                              compressRounds)] >>
              \o toKeep
     ELSE << [role |-> "assistant",
              content |-> generateHistorySummary(toCompress, compressRounds)] >>
            \o toKeep

\* compressHistoryIfNeeded
compressHistoryIfNeeded(history, rounds) ==
  LET maxMessages == rounds * 2
      keepRecentMessages == (maxMessages * 6) \div 10
      compressCount == Len(history) - keepRecentMessages
      compressRounds == compressCount \div 2
      messagesToCompress == compressRounds * 2
      toCompress == SubSeq(history, 1, messagesToCompress)
      toKeep == SubSeq(history, messagesToCompress + 1, Len(history))
  IN IF Len(history) <= maxMessages THEN history
     ELSE IF messagesToCompress < 2 THEN history
     ELSE << [role |-> "assistant",
              content |-> generateHistorySummary(toCompress, compressRounds)] >>
            \o toKeep

RECURSIVE stepLinesEveryStep(_, _)
\* a forEach that writes a line for every step, thought-only steps too
stepLinesEveryStep(stps, index) ==
  IF index > Len(stps) THEN ""
  ELSE "- st" \o ToString(index) \o ": by "
         \o String(stps[index].action) \o " gave: "
         \o String(stps[index].observation) \o "\n"
         \o stepLinesEveryStep(stps, index + 1)

RECURSIVE stepLines(_, _)
\* the forEach of saveConversation, from step `index` on
stepLines(stps, index) ==
  IF index > Len(stps) THEN ""
  ELSE (IF Truthy(stps[index].action) /\ Truthy(stps[index].observation)
          THEN "- st" \o ToString(index) \o ": by "
                 \o String(stps[index].action) \o " gave: "
                 \o String(stps[index].observation) \o "\n"
          ELSE "")
         \o stepLines(stps, index + 1)

\* an assistant message whose answer line is written only when there are steps
assistantMessageAnswerWithSteps(answer, stps) ==
  IF Len(stps) > 0
    THEN "work:\n" \o stepLines(stps, 1) \o "\n" \o AnswerMarker \o answer
  ELSE ""

\* the assistant message saveConversation builds
assistantMessage(answer, stps) ==
  (IF Len(stps) > 0 THEN "work:\n" \o stepLines(stps, 1) \o "\n" ELSE "")
    \o AnswerMarker \o answer

\* a saveConversation that leaves the compression for later
saveConversationDefersCompression(history, q, answer, stps, rounds) ==
  history \o << [role |-> "user", content |-> q],
                [role |-> "assistant", content |-> assistantMessage(answer, stps)] >>

\* saveConversation: the two pushes, then compressHistoryIfNeeded
saveConversation(history, q, answer, stps, rounds) ==
  compressHistoryIfNeeded(
    history \o << [role |-> "user", content |-> q],
                  [role |-> "assistant", content |-> assistantMessage(answer, stps)] >>,
    rounds)

\* getHistorySummary; the pair count is length / 2, a whole number or a half
getHistorySummary(history) ==
  IF Len(history) = 0 THEN "no conversation history"
  ELSE ToString(Len(history) \div 2)
         \o (IF Len(history) % 2 = 1 THEN ".5" ELSE "")
         \o " rounds, " \o ToString(Len(history)) \o " messages"

\* ---------------------------------------------------------------- the agent
VARIABLES
  maxIterations,        \* config.maxIterations
  maxHistoryRounds,     \* config.maxHistoryRounds
  conversationHistory,  \* this.conversationHistory
  pc,                   \* where run() is: "idle", "callLLM", "executeTool", "returned"
  question,             \* run's parameter
  steps,                \* run's local steps
  totalTokens,          \* run's local totalTokens
  iteration,            \* run's loop variable
  request,              \* the messages of the model call in flight (callLLM's messages)
  response,             \* the iteration's local response: what the model call settled with
  pending,              \* the iteration's local thoughtAction while executeTool is in flight
  result,               \* what the promise run() returned has settled with
  exit,                 \* the return statement run left through
  caught,               \* the message of the Error run's catch block caught
  cleared,              \* clearHistory was called and nothing has been saved since
  usageSeen,            \* the usage totals of the completions returned to this run, summed
  llmCalls,             \* callLLM invocations of this run
  dispatches,           \* executeTool invocations of this run
  toolExecs,            \* tool.execute invocations of this run
  saves,                \* saveConversation invocations of this run
  calls,                \* callLLM invocations of the behaviour
  runs,                 \* run() invocations of the behaviour
  recorded,             \* saveConversation invocations since the history was last empty
  registry,             \* ToolRegistry.tools, a Map: its entries in insertion order
  threw,                \* the message of the Error the last call threw, "" if none
  returned,             \* the array getHistory() last gave its caller
  constructed,          \* the constructor call: "no" (not made), "yes", "threw"
  config,               \* this.config, the settings other than the two bounds
  openai,               \* the options new OpenAI() was given
  generated,            \* the last call of BasicTypeGeneratorTool.execute: input and result
  inflight              \* the locals of the run() calls that overlap on the agent, by call

vars ==
  << maxIterations, maxHistoryRounds, conversationHistory, pc, question, steps,
     totalTokens, iteration, request, response, pending, result, exit, caught,
     cleared, usageSeen, llmCalls, dispatches, toolExecs, saves, calls, runs,
     recorded, registry, threw, returned, constructed, config, openai,
     observations, generated, inflight >>

\* what the agent's run() and clearHistory() neither read nor write
aux ==
  << registry, threw, returned, constructed, config, openai, observations,
     generated, inflight >>

\* the questions callers ask
Questions == {"q1", "q2"}

\* what the model returns as a decision: each field of the JSON object
Actions == {JNull, JStr("calculator"), JStr("ghost")}
Inputs == {JNull, JNum(1)}
Finals == {JNull, JStr(""), JStr("done"), JNum(0)}
\* the objects that satisfy the schema, and one that lacks its thought
Decisions ==
  [thought : {JStr("think")}, action : Actions, actionInput : Inputs,
   finalAnswer : Finals]
  \cup { [thought |-> JUndef, action |-> JStr("calculator"),
          actionInput |-> JNum(1), finalAnswer |-> JStr("done")] }
NoDecision ==
  [thought |-> JUndef, action |-> JUndef, actionInput |-> JUndef, finalAnswer |-> JUndef]

\* what a model call resolves with: it rejects, or it returns a completion whose
\* content is empty, text that is not JSON, or a JSON object
Responses ==
  { [rejects |-> TRUE, error |-> "connection error", usage |-> JUndef,
     content |-> "none", obj |-> NoDecision] }
  \cup [rejects : {FALSE}, error : {""}, usage : {JUndef, JNum(5)},
        content : {"empty", "text"}, obj : {NoDecision}]
  \cup [rejects : {FALSE}, error : {""}, usage : {JUndef, JNum(5)},
        content : {"json"}, obj : Decisions]

NoResponse ==
  [rejects |-> FALSE, error |-> "", usage |-> JUndef, content |-> "none",
   obj |-> NoDecision]

\* what tool.execute resolves with: a result, or an exception
NoResult == [success |-> FALSE, data |-> JUndef, error |-> JUndef]
ToolOutcomes ==
  { [throws |-> FALSE, message |-> "",
     result |-> [success |-> TRUE, data |-> JNum(4), error |-> JUndef]],
    [throws |-> FALSE, message |-> "",
     result |-> [success |-> FALSE, data |-> JUndef, error |-> JStr("bad input")]],
    [throws |-> TRUE, message |-> "boom", result |-> NoResult] }

\* ThoughtActionSchema.parse: does the object satisfy the schema
ThoughtActionSchema(obj) ==
  /\ obj.thought.t = "string"
  /\ obj.action.t \in {"string", "undefined", "null"}
  /\ obj.finalAnswer.t \in {"string", "number", "undefined", "null"}

\* parseResponse: the decision, or the Error it throws
parseResponse(resp) ==
  IF resp.content = "empty"
    THEN [ok |-> FALSE, error |-> "LLM returned an empty response", value |-> NoDecision]
  ELSE IF resp.content = "text"
    THEN [ok |-> FALSE, value |-> NoDecision,
          error |-> "failed to parse the LLM response: Unexpected token"]
  ELSE IF ~ThoughtActionSchema(resp.obj)
    THEN [ok |-> FALSE, value |-> NoDecision,
          error |-> "failed to parse the LLM response: schema: Required"]
  ELSE [ok |-> TRUE, error |-> "",
        value |->
          [thought |-> resp.obj.thought,
           action |-> IF Nullish(resp.obj.action) THEN JUndef
                      ELSE resp.obj.action,
           actionInput |-> IF Nullish(resp.obj.actionInput) THEN JUndef
                           ELSE resp.obj.actionInput,
           finalAnswer |-> IF Nullish(resp.obj.finalAnswer) THEN JUndef
                           ELSE JStr(String(resp.obj.finalAnswer))]]

\* a callLLM that sends the system prompt and the user message only
callLLMWithoutHistory(history, q, stps) ==
  << [role |-> "system",
      content |-> generateSystemPrompt(getDescriptions, getNames)],
     [role |-> "user", content |-> generateUserMessage(q, stps)] >>

\* callLLM: the messages it sends
callLLM(history, q, stps) ==
  << [role |-> "system",
      content |-> generateSystemPrompt(getDescriptions, getNames)] >>
    \o history
    \o << [role |-> "user", content |-> generateUserMessage(q, stps)] >>

\* an executeTool whose unknown-tool error does not list the registered names
executeToolOmitsNames(toolName, outcome) ==
  IF ~registryHas(toolName)
    THEN formatObservation(toolName, FALSE, JUndef,
           JStr("tool \"" \o toolName \o "\" does not exist."))
  ELSE IF outcome.throws
    THEN formatObservation(toolName, FALSE, JUndef, JStr(outcome.message))
  ELSE formatObservation(toolName, outcome.result.success, outcome.result.data,
                         outcome.result.error)

\* an executeTool whose catch reads the error of a result that was never returned
executeToolLosesMessage(toolName, outcome) ==
  IF ~registryHas(toolName)
    THEN formatObservation(toolName, FALSE, JUndef,
           JStr("tool \"" \o toolName \o "\" does not exist. available tools: "
                  \o Join(getNames, ", ")))
  ELSE IF outcome.throws
    THEN formatObservation(toolName, FALSE, JUndef, outcome.result.error)
  ELSE formatObservation(toolName, outcome.result.success, outcome.result.data,
                         outcome.result.error)

\* executeTool: the observation, given what tool.execute resolved with
executeTool(toolName, outcome) ==
  IF ~registryHas(toolName)
    THEN formatObservation(toolName, FALSE, JUndef,
           JStr("tool \"" \o toolName \o "\" does not exist. available tools: "
                  \o Join(getNames, ", ")))
  ELSE IF outcome.throws
    THEN formatObservation(toolName, FALSE, JUndef, JStr(outcome.message))
  ELSE formatObservation(toolName, outcome.result.success, outcome.result.data,
                         outcome.result.error)

\* a repetition check that wants three earlier steps before it can trip
isRepetitionOffByOne(stps, thoughtAction) ==
  /\ Len(stps) >= 3
  /\ stps[Len(stps)].action = thoughtAction.action
  /\ stps[Len(stps) - 1].action = thoughtAction.action
  /\ JSONstringify(stps[Len(stps)].actionInput)
       = JSONstringify(thoughtAction.actionInput)
  /\ JSONstringify(stps[Len(stps) - 1].actionInput)
       = JSONstringify(thoughtAction.actionInput)

\* a repetition check that trips on the first identical retry
isRepetitionLastOnly(stps, thoughtAction) ==
  /\ Len(stps) >= 1
  /\ stps[Len(stps)].action = thoughtAction.action
  /\ JSONstringify(stps[Len(stps)].actionInput)
       = JSONstringify(thoughtAction.actionInput)

\* a repetition check that counts only the steps whose tool call went through
isRepetitionOfSuccesses(stps, thoughtAction) ==
  /\ Len(stps) >= 2
  /\ stps[Len(stps)].action = thoughtAction.action
  /\ stps[Len(stps) - 1].action = thoughtAction.action
  /\ JSONstringify(stps[Len(stps)].actionInput)
       = JSONstringify(thoughtAction.actionInput)
  /\ JSONstringify(stps[Len(stps) - 1].actionInput)
       = JSONstringify(thoughtAction.actionInput)
  /\ ~Contains(String(stps[Len(stps)].observation), "] failed. error: ")
  /\ ~Contains(String(stps[Len(stps) - 1].observation), "] failed. error: ")

\* the repetition check of run
isRepetition(stps, thoughtAction) ==
  /\ Len(stps) >= 2
  /\ stps[Len(stps)].action = thoughtAction.action
  /\ stps[Len(stps) - 1].action = thoughtAction.action
  /\ JSONstringify(stps[Len(stps)].actionInput)
       = JSONstringify(thoughtAction.actionInput)
  /\ JSONstringify(stps[Len(stps) - 1].actionInput)
       = JSONstringify(thoughtAction.actionInput)

\* the answer of the repetition exit
repetitionAnswer(stps) ==
  "repetition loop detected. " \o ToString(Len(stps))
    \o " steps were executed, but the AI keeps repeating the same action. "
    \o "The last observation is: "
    \o (IF Truthy(stps[Len(stps)].observation)
          THEN String(stps[Len(stps)].observation) ELSE "none")
    \o ". Please try a more specific question."

\* the answer of the budget exit
budgetAnswer == "sorry, I could not finish within the allowed steps."

\* a loop condition that lets one iteration too many through
loopContinuesInclusive(i, max) == i <= max

\* a loop condition that never ends the loop
loopContinuesForever(i, max) == TRUE

\* the condition of run's for loop
loopContinues(i, max) == i < max

\* a final-answer test that gives way to a named action
hasFinalAnswerUnlessAction(thoughtAction) ==
  Truthy(thoughtAction.finalAnswer) /\ ~Truthy(thoughtAction.action)

\* `if (thoughtAction.finalAnswer)`
hasFinalAnswer(thoughtAction) == Truthy(thoughtAction.finalAnswer)

\* `if (thoughtAction.action)`
hasAction(thoughtAction) == Truthy(thoughtAction.action)

\* the outcomes of one pass through the try block
Outcome(tag, how, answer, error, stps, tokens, thoughtAction) ==
  [tag |-> tag, exit |-> how, answer |-> answer, error |-> error, steps |-> stps,
   tokens |-> tokens, thoughtAction |-> thoughtAction]

\* a final-answer branch whose step keeps the action the decision also named
finalAnswerBranchKeepsAction(thoughtAction, stps, tokens) ==
  Outcome("return", "final", String(thoughtAction.finalAnswer), "",
          Append(stps, [thought |-> thoughtAction.thought.s,
                        action |-> thoughtAction.action,
                        actionInput |-> thoughtAction.actionInput,
                        observation |-> JUndef]),
          tokens, thoughtAction)

\* the branch of a final answer: the thought-only step and the return
finalAnswerBranch(thoughtAction, stps, tokens) ==
  Outcome("return", "final", String(thoughtAction.finalAnswer), "",
          Append(stps, [thought |-> thoughtAction.thought.s, action |-> JUndef,
                        actionInput |-> JUndef, observation |-> JUndef]),
          tokens, thoughtAction)

\* an action branch that calls executeTool without awaiting it: the loop goes
\* round while the tool is still at work
actionBranchUnawaited(thoughtAction, stps, tokens) ==
  IF isRepetition(stps, thoughtAction)
    THEN Outcome("return", "repetition", repetitionAnswer(stps), "", stps, tokens,
                 thoughtAction)
  ELSE Outcome("continue", "", "", "", stps, tokens, thoughtAction)

\* the branch of an action: the repetition return, or the call of executeTool
actionBranch(thoughtAction, stps, tokens) ==
  IF isRepetition(stps, thoughtAction)
    THEN Outcome("return", "repetition", repetitionAnswer(stps), "", stps, tokens,
                 thoughtAction)
  ELSE Outcome("dispatch", "", "", "", stps, tokens, thoughtAction)

\* a neither branch that lets the loop go round instead of throwing
neitherBranchSkips(thoughtAction, stps, tokens) ==
  Outcome("continue", "", "", "", stps, tokens, thoughtAction)

\* the branch of neither: the throw
neitherBranch(thoughtAction, stps, tokens) ==
  Outcome("throw", "", "", "the LLM response has neither action nor finalAnswer",
          stps, tokens, thoughtAction)

\* the try block of run once the model call has settled: it returns, it throws,
\* or it goes on to call executeTool
tryBlock(resp, stps, tokens) ==
  IF resp.rejects
    THEN Outcome("throw", "", "", resp.error, stps, tokens, NoDecision)
  ELSE
    LET counted == tokens + (IF Truthy(resp.usage) THEN resp.usage.n ELSE 0)
        parsed == parseResponse(resp)
    IN IF ~parsed.ok
         THEN Outcome("throw", "", "", parsed.error, stps, counted, NoDecision)
       ELSE IF hasFinalAnswer(parsed.value)
         THEN finalAnswerBranch(parsed.value, stps, counted)
       ELSE IF hasAction(parsed.value)
         THEN actionBranch(parsed.value, stps, counted)
       ELSE neitherBranch(parsed.value, stps, counted)

\* a catch block the throw of the neither branch is not under
catchBlockMissesNeither(thrown) ==
  IF thrown.error = "the LLM response has neither action nor finalAnswer"
    THEN thrown
  ELSE [thrown EXCEPT !.tag = "return", !.exit = "error",
                      !.answer = "sorry, an error occurred: " \o thrown.error]

\* a catch block that lets the loop go round after a parse failure
catchBlockRetriesParse(thrown) ==
  IF thrown.error \in {"LLM returned an empty response",
                       "failed to parse the LLM response: Unexpected token",
                       "failed to parse the LLM response: schema: Required"}
    THEN [thrown EXCEPT !.tag = "continue"]
  ELSE [thrown EXCEPT !.tag = "return", !.exit = "error",
                      !.answer = "sorry, an error occurred: " \o thrown.error]

\* a catch block whose result does not carry the tokens counted so far
catchBlockDropsTokens(thrown) ==
  [thrown EXCEPT !.tag = "return", !.exit = "error", !.tokens = 0,
                 !.answer = "sorry, an error occurred: " \o thrown.error]

\* the catch block of run
catchBlock(thrown) ==
  [thrown EXCEPT !.tag = "return", !.exit = "error",
                 !.answer = "sorry, an error occurred: " \o thrown.error]

\* one pass through try and catch
tryCatch(resp, stps, tokens) ==
  LET o == tryBlock(resp, stps, tokens)
  IN IF o.tag = "throw" THEN catchBlock(o) ELSE o

\* what the promise run() returns has settled with
Unsettled ==
  [status |-> "pending", answer |-> "", steps |-> << >>, totalTokens |-> 0]

\* BasicTypeGeneratorTool.execute has not been called
NotGenerated ==
  [called |-> FALSE, schemas |-> << >>, prefix |-> "", useInterface |-> "unset",
   addComments |-> "unset", exportTypes |-> "unset", success |-> FALSE,
   code |-> "", typesCount |-> 0]

\* the calls of run() that may overlap on one agent
OverlapIds == {1, 2}

\* a call of run() that has not been made: its position, its parameter and
\* locals (pending is the iteration's thoughtAction), the request of its last
\* model call, what its promise settled with and the exit it took; own and
\* usage are the steps its own iterations produced and the tokens its own
\* model calls reported
NoRun ==
  [pc |-> "idle", question |-> "", steps |-> << >>, totalTokens |-> 0,
   iteration |-> 0, request |-> << >>, pending |-> NoDecision,
   result |-> Unsettled, exit |-> "", own |-> << >>, usage |-> 0]

\* no overlapping call has been made
NoRuns == [id \in OverlapIds |-> NoRun]

\* what the field initialisers and the constructor leave, the bounds aside
Fresh ==
  /\ conversationHistory = << >>
  /\ pc = "idle"
  /\ question = ""
  /\ steps = << >>
  /\ totalTokens = 0
  /\ iteration = 0
  /\ request = << >>
  /\ response = NoResponse
  /\ pending = NoDecision
  /\ result = Unsettled
  /\ exit = ""
  /\ caught = ""
  /\ cleared = FALSE
  /\ usageSeen = 0
  /\ llmCalls = 0
  /\ dispatches = 0
  /\ toolExecs = 0
  /\ saves = 0
  /\ calls = 0
  /\ runs = 0
  /\ recorded = 0
  /\ returned = << >>
  /\ observations = << >>
  /\ generated = NotGenerated
  /\ inflight = NoRuns

\* the agent was constructed with a key and a model over the startup registry
Built ==
  /\ registry = tools
  /\ threw = ""
  /\ constructed = "yes"
  /\ config = [model |-> "m", temperature |-> 0, verbose |-> FALSE,
               baseURL |-> JUndef]
  /\ openai = [apiKey |-> "sk", baseURL |-> JUndef]

Init ==
  /\ maxIterations \in 1..MaxIterations
  /\ maxHistoryRounds \in 1..MaxHistoryRounds
  /\ Fresh
  /\ Built

\* run() is called: the locals are set up, the loop is entered (maxIterations is
\* at least 1) and the first model call is sent
StartRun(q) ==
  /\ pc \in {"idle", "returned"}
  /\ runs < MaxRuns
  /\ calls < MaxCalls
  /\ question' = q
  /\ steps' = << >>
  /\ totalTokens' = 0
  /\ iteration' = 0
  /\ request' = callLLM(conversationHistory, q, << >>)
  /\ response' = NoResponse
  /\ pending' = NoDecision
  /\ result' = Unsettled
  /\ exit' = ""
  /\ caught' = ""
  /\ pc' = "callLLM"
  /\ usageSeen' = 0
  /\ llmCalls' = 1
  /\ dispatches' = 0
  /\ toolExecs' = 0
  /\ saves' = 0
  /\ calls' = calls + 1
  /\ runs' = runs + 1
  /\ UNCHANGED << maxIterations, maxHistoryRounds, conversationHistory, cleared,
                  recorded, aux >>

\* a return whose catch block does not save the exchange
ReturnUnsavedOnError(answer, stps, tokens, how, error) ==
  /\ conversationHistory' =
       IF how = "error" THEN conversationHistory
       ELSE saveConversation(conversationHistory, question, answer, stps,
                             maxHistoryRounds)
  /\ saves' = IF how = "error" THEN saves ELSE saves + 1
  /\ recorded' = IF how = "error" THEN recorded ELSE recorded + 1
  /\ cleared' = IF how = "error" THEN cleared ELSE FALSE
  /\ steps' = stps
  /\ totalTokens' = tokens
  /\ result' = [status |-> "fulfilled", answer |-> answer, steps |-> stps,
                totalTokens |-> tokens]
  /\ exit' = how
  /\ caught' = error
  /\ pc' = "returned"

\* a return statement of run: saveConversation, then the result
Return(answer, stps, tokens, how, error) ==
  /\ conversationHistory' =
       saveConversation(conversationHistory, question, answer, stps, maxHistoryRounds)
  /\ saves' = saves + 1
  /\ recorded' = recorded + 1
  /\ cleared' = FALSE
  /\ steps' = stps
  /\ totalTokens' = tokens
  /\ result' = [status |-> "fulfilled", answer |-> answer, steps |-> stps,
                totalTokens |-> tokens]
  /\ exit' = how
  /\ caught' = error
  /\ pc' = "returned"

\* an exception leaves run: the promise rejects
Reject(error, stps, tokens) ==
  /\ steps' = stps
  /\ totalTokens' = tokens
  /\ result' = [status |-> "rejected", answer |-> error, steps |-> << >>,
                totalTokens |-> 0]
  /\ exit' = "exception"
  /\ pc' = "returned"
  /\ UNCHANGED << conversationHistory, saves, recorded, cleared, caught >>

\* the loop goes round: the next model call or, the budget exhausted, the return
\* after the loop
NextIteration(stps, tokens) ==
  /\ iteration' = iteration + 1
  /\ IF loopContinues(iteration + 1, maxIterations)
       THEN /\ calls < MaxCalls
            /\ steps' = stps
            /\ totalTokens' = tokens
            /\ request' = callLLM(conversationHistory, question, stps)
            /\ llmCalls' = llmCalls + 1
            /\ calls' = calls + 1
            /\ pc' = "callLLM"
            /\ UNCHANGED << conversationHistory, saves, recorded, cleared, result,
                            exit, caught >>
       ELSE /\ Return(budgetAnswer, stps, tokens, "budget", "")
            /\ UNCHANGED << request, llmCalls, calls >>

\* the model call settles: the rest of the try block up to a return, a throw or
\* the call of executeTool, which looks the tool up and calls its execute
LLMSettles(resp) ==
  /\ pc = "callLLM"
  /\ response' = resp
  /\ usageSeen' = usageSeen
       + (IF ~resp.rejects /\ resp.usage.t = "number" THEN resp.usage.n ELSE 0)
  /\ LET o == tryCatch(resp, steps, totalTokens)
     IN IF o.tag = "dispatch"
          THEN /\ pending' = o.thoughtAction
               /\ totalTokens' = o.tokens
               /\ dispatches' = dispatches + 1
               /\ toolExecs' = toolExecs
                    + (IF registryHas(String(o.thoughtAction.action)) THEN 1 ELSE 0)
               /\ pc' = "executeTool"
               /\ UNCHANGED << conversationHistory, saves, recorded, cleared, steps,
                               result, exit, caught, iteration, request, llmCalls,
                               calls >>
        ELSE IF o.tag = "continue"
          THEN /\ NextIteration(o.steps, o.tokens)
               /\ UNCHANGED << pending, dispatches, toolExecs >>
        ELSE /\ IF o.tag = "return"
                  THEN Return(o.answer, o.steps, o.tokens, o.exit, o.error)
                  ELSE Reject(o.error, o.steps, o.tokens)
             /\ UNCHANGED << pending, dispatches, toolExecs, iteration, request,
                             llmCalls, calls >>
  /\ UNCHANGED << maxIterations, maxHistoryRounds, question, runs, aux >>

\* executeTool settles: the step is pushed and the loop goes round
ToolSettles(outcome) ==
  /\ pc = "executeTool"
  /\ NextIteration(
       Append(steps, [thought |-> pending.thought.s,
                      action |-> pending.action,
                      actionInput |-> pending.actionInput,
                      observation |->
                        JStr(executeTool(String(pending.action), outcome))]),
       totalTokens)
  /\ response' = NoResponse
  /\ pending' = NoDecision
  /\ UNCHANGED << maxIterations, maxHistoryRounds, question, usageSeen,
                  dispatches, toolExecs, runs, aux >>

\* a clearHistory that leaves the history alone while a run is in flight
clearHistoryWhenIdle ==
  /\ conversationHistory' =
       IF pc \in {"callLLM", "executeTool"} THEN conversationHistory ELSE << >>
  /\ cleared' = TRUE
  /\ recorded' = 0
  /\ UNCHANGED << maxIterations, maxHistoryRounds, pc, question, steps,
                  totalTokens, iteration, request, response, pending, result,
                  exit, caught, usageSeen, llmCalls, dispatches, toolExecs, saves,
                  calls, runs, aux >>

\* clearHistory
clearHistory ==
  /\ conversationHistory' = << >>
  /\ cleared' = TRUE
  /\ recorded' = 0
  /\ UNCHANGED << maxIterations, maxHistoryRounds, pc, question, steps,
                  totalTokens, iteration, request, response, pending, result,
                  exit, caught, usageSeen, llmCalls, dispatches, toolExecs, saves,
                  calls, runs, aux >>

\* getHistory: a copy of the stored messages
getHistory == conversationHistory

Next ==
  \/ \E q \in Questions : StartRun(q)
  \/ \E resp \in Responses : LLMSettles(resp)
  \/ \E outcome \in ToolOutcomes : ToolSettles(outcome)
  \/ clearHistory

Spec == Init /\ [][Next]_vars

\* ------------------------------------------------- the conversation memory
\* the answers and the steps of the runs whose exchanges are saved
MemoryAnswers == {"done", "0"}
MemorySteps ==
  { << >>,
    << [thought |-> "t", action |-> JStr("calculator"), actionInput |-> JNum(1),
        observation |-> JStr(formatObservation("calculator", TRUE, JNum(4), JUndef))] >> }

\* a run seen from the memory, from its call to its return: it ends with one
\* saveConversation(question, answer, steps) and returns the answer
record(q, answer, stps) ==
  /\ recorded < MaxRecords
  /\ conversationHistory' =
       saveConversation(conversationHistory, q, answer, stps, maxHistoryRounds)
  /\ question' = q
  /\ steps' = stps
  /\ result' = [status |-> "fulfilled", answer |-> answer, steps |-> stps,
                totalTokens |-> 0]
  /\ pc' = "returned"
  /\ saves' = 1
  /\ recorded' = recorded + 1
  /\ cleared' = FALSE
  /\ UNCHANGED << maxIterations, maxHistoryRounds, totalTokens, iteration, request,
                  response, pending, exit, caught, usageSeen, llmCalls, dispatches,
                  toolExecs, calls, runs, aux >>

\* an agent constructed with any bound on the history rounds
MemoryInit ==
  /\ maxIterations = MaxIterations
  /\ maxHistoryRounds \in 1..MaxMemoryRounds
  /\ Fresh
  /\ Built

MemoryNext ==
  \/ \E q \in Questions, answer \in MemoryAnswers, stps \in MemorySteps :
       record(q, answer, stps)
  \/ clearHistory

SpecMemory == MemoryInit /\ [][MemoryNext]_vars

\* ------------------------------------------------------- the tool registry
\* the tools a program may register: two under each name
ToolPool ==
  [name : {"calculator", "read_file", "http_get"}, description : {"v1", "v2"}]

\* no agent has been constructed
Unbuilt ==
  /\ maxIterations = 0
  /\ maxHistoryRounds = 0
  /\ constructed = "no"
  /\ config = [model |-> "", temperature |-> 0, verbose |-> FALSE,
               baseURL |-> JUndef]
  /\ openai = [apiKey |-> "", baseURL |-> JUndef]

\* a register that lets the later tool take the name
registerOverwrites(tool) ==
  /\ registry' =
       IF has(registry, tool.name)
         THEN [i \in 1..Len(registry) |->
                 IF registry[i].name = tool.name THEN tool ELSE registry[i]]
       ELSE Append(registry, tool)
  /\ threw' = ""
  /\ UNCHANGED << maxIterations, maxHistoryRounds, conversationHistory, pc,
                  question, steps, totalTokens, iteration, request, response,
                  pending, result, exit, caught, cleared, usageSeen, llmCalls,
                  dispatches, toolExecs, saves, calls, runs, recorded, returned,
                  constructed, config, openai, observations, generated,
                  inflight >>

\* ToolRegistry.register
register(tool) ==
  /\ IF has(registry, tool.name)
       THEN /\ threw' = "Tool with name \"" \o tool.name \o "\" already registered"
            /\ registry' = registry
       ELSE /\ registry' = Append(registry, tool)
            /\ threw' = ""
  /\ UNCHANGED << maxIterations, maxHistoryRounds, conversationHistory, pc,
                  question, steps, totalTokens, iteration, request, response,
                  pending, result, exit, caught, cleared, usageSeen, llmCalls,
                  dispatches, toolExecs, saves, calls, runs, recorded, returned,
                  constructed, config, openai, observations, generated,
                  inflight >>

\* a new ToolRegistry()
RegistryInit ==
  /\ registry = << >>
  /\ threw = ""
  /\ Fresh
  /\ Unbuilt

RegistryNext == \E tool \in ToolPool : register(tool)

SpecRegistry == RegistryInit /\ [][RegistryNext]_vars

\* ------------------------------------------------- the callers of getHistory
\* `returned` is the array getHistory() gave its caller: element i is the
\* position in conversationHistory of the message object it refers to, or 0 for
\* an object the caller made.  A saved message is one object, referred to by the
\* agent's array and by every array spread from it.

\* the values a caller writes into a message
Written == [role : {"assistant"}, content : {"x"}]

\* what the agent's methods leave alone, `returned` aside
idle ==
  << maxIterations, maxHistoryRounds, pc, question, steps, totalTokens, iteration,
     request, response, pending, result, exit, caught, cleared, usageSeen,
     llmCalls, dispatches, toolExecs, saves, calls, runs, recorded, registry,
     threw, constructed, config, openai, observations, generated, inflight >>

\* getHistory(): [...this.conversationHistory], a new array of the same objects
getHistoryCall ==
  /\ returned' = [i \in 1..Len(conversationHistory) |-> i]
  /\ UNCHANGED << conversationHistory, idle >>

\* the caller pushes a message of its own onto the array it was given
callerPush ==
  /\ Len(returned) <= Len(conversationHistory)
  /\ returned' = Append(returned, 0)
  /\ UNCHANGED << conversationHistory, idle >>

\* the caller pops the array it was given
callerPop ==
  /\ Len(returned) > 0
  /\ returned' = SubSeq(returned, 1, Len(returned) - 1)
  /\ UNCHANGED << conversationHistory, idle >>

\* the caller assigns role or content of element i of the array it was given
callerWrites(i, field, w) ==
  /\ i \in 1..Len(returned)
  /\ conversationHistory' =
       IF returned[i] > 0
         THEN [conversationHistory EXCEPT ![returned[i]][field] = w[field]]
       ELSE conversationHistory
  /\ UNCHANGED << returned, idle >>

\* the caller lets go of the array
callerDrops ==
  /\ returned # << >>
  /\ returned' = << >>
  /\ UNCHANGED << conversationHistory, idle >>

CopyInit == MemoryInit

\* between two getHistory() calls the agent runs and clears as in SpecMemory; the
\* caller holds no array across a run or a clearHistory
CopyNext ==
  \/ \E q \in Questions :
       /\ returned = << >>
       /\ recorded < MaxCopyRecords
       /\ record(q, "done", << >>)
  \/ returned = << >> /\ clearHistory
  \/ getHistoryCall
  \/ callerPush
  \/ callerPop
  \/ \E i \in 1..Len(returned), field \in {"role", "content"}, w \in Written :
       callerWrites(i, field, w)
  \/ callerDrops

SpecCopy == CopyInit /\ [][CopyNext]_vars

\* ---------------------------------------------------------- the constructor
\* the defaults of `finalConfig.maxIterations || 10` and
\* `finalConfig.maxHistoryRounds || 10`
DefaultMaxIterations == 10
DefaultMaxHistoryRounds == 10

\* the AgentConfig objects a caller may pass
Configs ==
  [apiKey : {JUndef, JStr(""), JStr("sk")},
   model : {JUndef, JStr(""), JStr("m")},
   baseURL : {JUndef, JStr("http://h")},
   maxIterations : {JUndef, JNum(0), JNum(1), JNum(2)},
   maxHistoryRounds : {JUndef, JNum(0), JNum(1), JNum(3)},
   temperature : {JUndef, JNum(1)}]

\* the first argument when it is a string
Keys == {"", "sk"}

\* a || b on a number or undefined
OrNumber(v, default) == IF Truthy(v) THEN v.n ELSE default

\* a || "" on a string or undefined
OrEmpty(v) == IF Truthy(v) THEN v.s ELSE ""

\* finalApiKey: the string argument, or config.apiKey || ""
finalApiKey(form, key, cfg) == IF form = "key" THEN key ELSE OrEmpty(cfg.apiKey)

\* new ReActAgent(apiKey, registry, config) (form "key") or
\* new ReActAgent(config, registry) (form "config").  What `new OpenAI` does
\* with an empty key is the library's: clientThrows is its choice.
constructor(form, key, cfg, clientThrows) ==
  /\ constructed = "no"
  /\ clientThrows => finalApiKey(form, key, cfg) = ""
  /\ IF form = "config" /\ finalApiKey(form, key, cfg) = ""
       THEN /\ constructed' = "threw"
            /\ threw' = "apiKey is required, as the constructor's argument or as config.apiKey"
            /\ UNCHANGED << maxIterations, maxHistoryRounds, config, openai >>
     ELSE IF clientThrows
       THEN /\ constructed' = "threw"
            /\ threw' = "OpenAIError"
            /\ UNCHANGED << maxIterations, maxHistoryRounds, config, openai >>
     ELSE /\ constructed' = "yes"
          /\ threw' = ""
          /\ openai' = [apiKey |-> finalApiKey(form, key, cfg),
                        baseURL |-> IF Truthy(cfg.baseURL) THEN cfg.baseURL
                                    ELSE JUndef]
          /\ config' = [model |-> OrEmpty(cfg.model),
                        temperature |-> OrNumber(cfg.temperature, 0),
                        verbose |-> FALSE,
                        baseURL |-> cfg.baseURL]
          /\ maxIterations' = OrNumber(cfg.maxIterations, DefaultMaxIterations)
          /\ maxHistoryRounds' =
               OrNumber(cfg.maxHistoryRounds, DefaultMaxHistoryRounds)
  /\ UNCHANGED << conversationHistory, pc, question, steps, totalTokens, iteration,
                  request, response, pending, result, exit, caught, cleared,
                  usageSeen, llmCalls, dispatches, toolExecs, saves, calls, runs,
                  recorded, registry, returned, observations, generated,
                  inflight >>

\* a program that has registered its tools and is about to construct an agent
ConstructInit ==
  /\ registry = tools
  /\ threw = ""
  /\ Fresh
  /\ Unbuilt

ConstructNext ==
  \E form \in {"key", "config"}, key \in Keys, cfg \in Configs,
     clientThrows \in BOOLEAN :
    constructor(form, key, cfg, clientThrows)

SpecConstruct == ConstructInit /\ [][ConstructNext]_vars

\* ------------------------------------------------------------------ claims
\* the steps that called a registered tool
RegisteredSteps(stps) ==
  { i \in 1..Len(stps) : registryHas(String(stps[i].action)) }

\* every step holds an action and an observation
AllObserved(stps) ==
  \A i \in 1..Len(stps) :
    stps[i].action.t = "string" /\ stps[i].observation.t = "string"

\* the decision the model call settled with has no final answer, or an empty one
NoFinalProposed == response.obj.finalAnswer \in {JUndef, JNull, JStr("")}

\* the decision the model call settled with has no action, or an empty one
NoActionProposed == response.obj.action \in {JUndef, JNull, JStr("")}

\* the model call settled with a completion whose content is a JSON object that
\* satisfies the decision schema
ValidDecision ==
  /\ ~response.rejects
  /\ response.content = "json"
  /\ response.obj.thought.t = "string"

\* C1: whatever the model call settles with (a rejection, empty content, text that
\* is not JSON, JSON that fails the schema, a decision with neither action nor
\* final answer) and whatever a tool does, run() settles with a result object
\* {answer, steps, totalTokens} and never with an exception; on the fatal paths
\* the answer holds the description of the error.
C1_RunNeverThrows ==
  /\ result.status # "rejected"
  /\ pc = "returned" =>
       /\ result.status = "fulfilled"
       /\ result.steps = steps
       /\ result.totalTokens = totalTokens
       /\ exit \in {"final", "repetition", "error", "budget"}
       /\ exit = "error" => caught # "" /\ Contains(result.answer, caught)
  /\ response.rejects =>
       pc = "returned" /\ exit = "error" /\ Contains(result.answer, response.error)
  /\ response.content = "empty" =>
       pc = "returned" /\ exit = "error" /\ Contains(result.answer, "empty response")
  /\ response.content = "text" =>
       pc = "returned" /\ exit = "error" /\ Contains(result.answer, "Unexpected token")
  /\ (response.content = "json" /\ response.obj.thought.t # "string") =>
       pc = "returned" /\ exit = "error" /\ Contains(result.answer, "schema")
  /\ (ValidDecision /\ NoFinalProposed /\ NoActionProposed) =>
       /\ pc = "returned"
       /\ exit = "error"
       /\ Contains(result.answer, "neither action nor finalAnswer")

\* C1's case: a run whose tool threw in iteration 1 and whose model returned
\* text that is not JSON in iteration 2 has returned its result
C1_Witness ==
  /\ pc = "returned"
  /\ exit = "error"
  /\ response.content = "text"
  /\ Len(result.steps) = 1
  /\ Contains(String(result.steps[1].observation), "boom")
  /\ Contains(result.answer, "Unexpected token")

\* the decision the model call settled with proposes the action, with the input,
\* of both of the last two steps
C2_ProposalRepeats ==
  /\ ValidDecision
  /\ NoFinalProposed
  /\ response.obj.action.t = "string"
  /\ response.obj.action.s # ""
  /\ Len(steps) >= 2
  /\ \A i \in {Len(steps) - 1, Len(steps)} :
       /\ steps[i].action = response.obj.action
       /\ JSONstringify(steps[i].actionInput)
            = JSONstringify(IF Nullish(response.obj.actionInput) THEN JUndef
                            ELSE response.obj.actionInput)

\* C2: when the model proposes, in iteration k >= 3, the action and the serialized
\* input of both of the two steps before, run returns in iteration k with the
\* repetition answer, which holds the last observation, and the tool is not
\* dispatched again; proposed in iterations 1, 2 and 3, the result holds exactly 2
\* steps, each with an observation, and the tool was executed exactly 2 times.
C2_RepetitionGuard ==
  C2_ProposalRepeats =>
    /\ pc = "returned"
    /\ exit = "repetition"
    /\ result.status = "fulfilled"
    /\ result.steps = steps
    /\ Contains(result.answer, "repetition loop detected")
    /\ Contains(result.answer, String(steps[Len(steps)].observation))
    /\ llmCalls = Len(steps) + 1
    /\ dispatches = Len(steps)
    /\ toolExecs = Cardinality(RegisteredSteps(steps))
    /\ llmCalls = 3 =>
         /\ Len(result.steps) = 2
         /\ AllObserved(result.steps)
         /\ dispatches = 2
         /\ registryHas(response.obj.action.s) => toolExecs = 2

\* C2's case: the same registered tool proposed with the same input in iterations
\* 1, 2 and 3, and the run has returned
C2_Witness ==
  /\ C2_ProposalRepeats
  /\ pc = "returned"
  /\ llmCalls = 3
  /\ toolExecs = 2
  /\ Len(result.steps) = 2
  /\ response.obj.action = JStr("calculator")

\* C3: with maxIterations = N >= 1, a run that leaves through no final answer, no
\* repetition trip and no fatal error returns after exactly N model calls and
\* exactly N tool dispatches, with the fixed budget answer and N steps; no run
\* makes more than N model calls.
C3_IterationBudget ==
  /\ llmCalls <= maxIterations
  /\ dispatches <= maxIterations
  /\ (pc = "returned" /\ exit \notin {"final", "repetition", "error"}) =>
       /\ exit = "budget"
       /\ result.status = "fulfilled"
       /\ result.answer = "sorry, I could not finish within the allowed steps."
       /\ llmCalls = maxIterations
       /\ dispatches = maxIterations
       /\ toolExecs = Cardinality(RegisteredSteps(result.steps))
       /\ Len(result.steps) = maxIterations
       /\ AllObserved(result.steps)

\* C3's case: maxIterations = 2, two different proposals of a registered tool, and
\* the run has returned after exactly 2 tool executions
C3_Witness ==
  /\ pc = "returned"
  /\ exit = "budget"
  /\ maxIterations = 2
  /\ toolExecs = 2
  /\ Len(result.steps) = 2
  /\ result.steps[1].actionInput # result.steps[2].actionInput

\* the run has saved its exchange: unless the history was cleared since, the
\* last stored message is an assistant message that holds the returned answer
Persisted ==
  /\ saves = 1
  /\ ~cleared =>
       /\ Len(conversationHistory) >= 1
       /\ conversationHistory[Len(conversationHistory)].role = "assistant"
       /\ Contains(conversationHistory[Len(conversationHistory)].content,
                   result.answer)

\* the run ended in this iteration on the success path: one thought-only step
\* appended, no tool dispatched in the iteration, the exchange saved, the final
\* answer returned
C4_FinalExit ==
  /\ pc = "returned"
  /\ exit = "final"
  /\ result.status = "fulfilled"
  /\ result.answer = String(response.obj.finalAnswer)
  /\ Len(result.steps) = llmCalls
  /\ result.steps[Len(result.steps)] =
       [thought |-> response.obj.thought.s, action |-> JUndef,
        actionInput |-> JUndef, observation |-> JUndef]
  /\ AllObserved(SubSeq(result.steps, 1, Len(result.steps) - 1))
  /\ dispatches = llmCalls - 1
  /\ toolExecs = Cardinality(RegisteredSteps(result.steps))
  /\ Persisted

\* C4, as claimed: whenever the decision carries a final answer, any string or
\* number the schema accepts, run ends in that iteration on the success path.
C4_AnyFinalAnswerEnds ==
  (ValidDecision /\ response.obj.finalAnswer.t \in {"string", "number"})
    => C4_FinalExit

\* C4, amended: whenever the decision carries a final answer that is a number or a
\* string that is not empty, run ends in that iteration on the success path: one
\* thought-only terminal step, no tool executed in the iteration even if the
\* decision names an action, the exchange saved, the final answer returned.
C4_NonEmptyFinalAnswerEnds ==
  (/\ ValidDecision
   /\ \/ response.obj.finalAnswer.t = "number"
      \/ response.obj.finalAnswer.t = "string" /\ response.obj.finalAnswer.s # "")
    => C4_FinalExit

\* C4's case: in iteration 2 the decision carries the number 0 as its final answer
\* and names a tool as well; the run has returned "0"
C4_Witness ==
  /\ ValidDecision
  /\ response.obj.finalAnswer = JNum(0)
  /\ response.obj.action = JStr("calculator")
  /\ pc = "returned"
  /\ result.answer = "0"
  /\ Len(result.steps) = 2
  /\ dispatches = 1

\* the model call settled with a completion parseResponse fails on
C5_ParseFails ==
  /\ ~response.rejects
  /\ \/ response.content \in {"empty", "text"}
     \/ response.content = "json" /\ response.obj.thought.t # "string"

\* C5: a parse failure in iteration k is fatal and not retried: the run makes no
\* further model call and no tool execution, and returns an error answer that
\* holds the parse error, with exactly the k-1 steps completed before and the
\* tokens accumulated so far.
C5_ParseFailureIsFatal ==
  C5_ParseFails =>
    /\ pc = "returned"
    /\ exit = "error"
    /\ result.status = "fulfilled"
    /\ caught \in {"LLM returned an empty response",
                   "failed to parse the LLM response: Unexpected token",
                   "failed to parse the LLM response: schema: Required"}
    /\ Contains(result.answer, caught)
    /\ iteration = llmCalls - 1
    /\ Len(result.steps) = llmCalls - 1
    /\ AllObserved(result.steps)
    /\ dispatches = llmCalls - 1
    /\ toolExecs = Cardinality(RegisteredSteps(result.steps))
    /\ result.totalTokens = usageSeen

\* C5's case: the completion of iteration 3 fails the schema, after two steps and
\* with tokens counted
C5_Witness ==
  /\ C5_ParseFails
  /\ response.content = "json"
  /\ pc = "returned"
  /\ llmCalls = 3
  /\ Len(result.steps) = 2
  /\ result.totalTokens = 10

\* C6: a decision with neither an action nor a final answer is no silent no-op:
\* the run does not go on to another iteration, it produces an error answer,
\* saves the exchange and returns.
C6_NeitherIsFatal ==
  (ValidDecision /\ NoFinalProposed /\ NoActionProposed) =>
    /\ pc = "returned"
    /\ exit = "error"
    /\ result.status = "fulfilled"
    /\ Contains(result.answer, "neither action nor finalAnswer")
    /\ iteration = llmCalls - 1
    /\ Len(result.steps) = llmCalls - 1
    /\ dispatches = llmCalls - 1
    /\ Persisted

\* C6's case: in iteration 2 the decision holds a thought only; the run has returned
\* and the exchange is stored
C6_Witness ==
  /\ ValidDecision
  /\ response.obj.action = JNull
  /\ response.obj.finalAnswer = JNull
  /\ pc = "returned"
  /\ llmCalls = 2
  /\ ~cleared
  /\ Len(conversationHistory) = 2

\* after executeTool settled, the step it produced is the last of the steps and
\* the loop has gone round: the next model call is in flight with a request whose
\* user message renders the step, or, this being the last iteration the budget
\* allows, run has returned through the budget exit
C7_StepFedBack ==
  /\ Len(steps') = Len(steps) + 1
  /\ SubSeq(steps', 1, Len(steps)) = steps
  /\ steps'[Len(steps')].thought = pending.thought.s
  /\ steps'[Len(steps')].action = pending.action
  /\ steps'[Len(steps')].actionInput = pending.actionInput
  /\ steps'[Len(steps')].observation.t = "string"
  /\ iteration' = iteration + 1
  /\ result'.status # "rejected"
  /\ exit' \in {"", "budget"}
  /\ IF iteration + 1 < maxIterations
       THEN /\ pc' = "callLLM"
            /\ llmCalls' = llmCalls + 1
            /\ request'[Len(request')].role = "user"
            /\ Contains(request'[Len(request')].content,
                        "action: " \o pending.action.s)
            /\ Contains(request'[Len(request')].content,
                        "observation: " \o steps'[Len(steps')].observation.s)
       ELSE /\ pc' = "returned"
            /\ exit' = "budget"
            /\ result'.steps = steps'

\* no tool is registered under the name
C7_Unregistered(name) == \A i \in 1..Len(tools) : tools[i].name # name

\* C7: when the proposed action names no registered tool, the run does not end
\* with an error: no tool is executed, a step is appended whose observation is a
\* failure that names the unknown tool and lists all registered names, and the
\* loop goes round to the next iteration, whose model request holds that step.
C7_UnknownToolIsObserved ==
  /\ [][\A outcome \in ToolOutcomes :
          (/\ pc = "executeTool"
           /\ C7_Unregistered(pending.action.s)
           /\ ToolSettles(outcome)) =>
            /\ C7_StepFedBack
            /\ toolExecs' = toolExecs
            /\ Contains(steps'[Len(steps')].observation.s,
                        "tool [" \o pending.action.s \o "] failed. error: ")
            /\ Contains(steps'[Len(steps')].observation.s,
                        "\"" \o pending.action.s \o "\" does not exist")
            /\ \A i \in 1..Len(tools) :
                 Contains(steps'[Len(steps')].observation.s, tools[i].name)]_vars
  /\ [](toolExecs = Cardinality(RegisteredSteps(steps))
          + (IF pc = "executeTool" /\ ~C7_Unregistered(pending.action.s)
               THEN 1 ELSE 0))

\* C7's case: the unknown tool's step is in the request of iteration 2
C7_Witness ==
  /\ pc = "callLLM"
  /\ llmCalls = 2
  /\ Len(steps) = 1
  /\ steps[1].action = JStr("ghost")
  /\ toolExecs = 0
  /\ Contains(request[Len(request)].content, "\"ghost\" does not exist")

\* C8: when a registered tool's execute throws or returns a failure result, the
\* run is not ended by it: the failure becomes a failure observation that holds
\* the exception's message or the result's error, a step with it is appended,
\* and the loop goes round to the next iteration.
C8_ToolFailureIsObserved ==
  [][\A outcome \in ToolOutcomes :
       (/\ pc = "executeTool"
        /\ ~C7_Unregistered(pending.action.s)
        /\ outcome.throws \/ ~outcome.result.success
        /\ ToolSettles(outcome)) =>
         /\ C7_StepFedBack
         /\ Contains(steps'[Len(steps')].observation.s,
                     "tool [" \o pending.action.s \o "] failed. error: "
                       \o (IF outcome.throws THEN outcome.message
                           ELSE String(outcome.result.error)))]_vars

\* C8's case: a tool threw in iteration 1, returned a failure result in iteration
\* 2, and the third model call is in flight
C8_Witness ==
  /\ pc = "callLLM"
  /\ llmCalls = 3
  /\ Len(steps) = 2
  /\ Contains(steps[1].observation.s, "failed. error: boom")
  /\ Contains(steps[2].observation.s, "failed. error: bad input")

\* a step of the run, as opposed to a call of clearHistory
C9_RunStep == << pc, iteration, llmCalls, runs >>' # << pc, iteration, llmCalls, runs >>

\* C9: every run() records its exchange exactly once, when it ends, on every
\* outcome (final answer, repetition trip, fatal error, budget): before that the
\* run does not change the stored history, and then it appends the question as a
\* user message and one assistant message that ends with the returned answer (and
\* the compression check runs on the result).
C9_RecordedOnceAtTheEnd ==
  [][/\ (C9_RunStep /\ pc' # "returned") =>
          conversationHistory' = conversationHistory /\ saves' = 0
     /\ (C9_RunStep /\ pc' = "returned") =>
          LET a == result'.answer
              m == assistantMessage(a, result'.steps)
          IN  /\ saves = 0
              /\ saves' = 1
              /\ exit' \in {"final", "repetition", "error", "budget"}
              /\ Len(m) >= Len(a)
              /\ SubSeq(m, Len(m) - Len(a) + 1, Len(m)) = a
              /\ conversationHistory' =
                   compressHistoryIfNeeded(
                     conversationHistory
                       \o << [role |-> "user", content |-> question],
                             [role |-> "assistant", content |-> m] >>,
                     maxHistoryRounds)]_vars

\* C9's case: a second run has ended on the fatal path and its exchange is stored
\* after the first run's
C9_Witness ==
  /\ pc = "returned"
  /\ runs = 2
  /\ exit = "error"
  /\ saves = 1
  /\ ~cleared
  /\ Len(conversationHistory) = 3
  /\ conversationHistory[2] = [role |-> "user", content |-> question]
  /\ Contains(conversationHistory[3].content, result.answer)

\* C10: on an empty history, recording question q with answer a and no steps
\* leaves exactly two messages for getHistory(): a user message equal to q, then
\* an assistant message that holds a; after clearHistory(), in any state,
\* getHistory() is empty and getHistorySummary() is the empty-state message.
C10_MemoryRoundTrip ==
  /\ [][(/\ conversationHistory = << >>
         /\ pc # "returned"
         /\ pc' = "returned"
         /\ result'.steps = << >>) =>
          /\ Len(getHistory') = 2
          /\ getHistory'[1] = [role |-> "user", content |-> question]
          /\ getHistory'[2].role = "assistant"
          /\ Contains(getHistory'[2].content, result'.answer)]_vars
  /\ [](cleared =>
          /\ getHistory = << >>
          /\ getHistorySummary(conversationHistory) = "no conversation history")

\* C10's case: a run on an empty history has ended without a step and its two
\* messages are stored
C10_Witness ==
  /\ pc = "returned"
  /\ runs = 1
  /\ result.steps = << >>
  /\ ~cleared
  /\ getHistory = << [role |-> "user", content |-> "q2"],
                     [role |-> "assistant",
                      content |-> AnswerMarker \o result.answer] >>

\* a synthetic summary message, as compressHistoryIfNeeded builds it
C11_IsSummary(m) ==
  /\ m.role = "assistant"
  /\ Len(m.content) >= 14
  /\ SubSeq(m.content, 1, 14) = "early rounds ("

\* from message i on, h is made of complete pairs: a user message, then an
\* assistant message that is no summary
C11_PairsFrom(h, i) ==
  /\ (Len(h) - i + 1) % 2 = 0
  /\ \A k \in i..Len(h) :
       IF (k - i) % 2 = 0 THEN h[k].role = "user"
       ELSE h[k].role = "assistant" /\ ~C11_IsSummary(h[k])

\* C11: after any sequence of serialized runs, for every maxHistoryRounds >= 1,
\* the stored history is at most one standalone summary message followed only by
\* complete pairs, each user question immediately followed by its assistant
\* resolution: compression never cuts between a question and its answer.
C11_RoundBoundarySafe ==
  \/ C11_PairsFrom(conversationHistory, 1)
  \/ /\ Len(conversationHistory) >= 1
     /\ C11_IsSummary(conversationHistory[1])
     /\ C11_PairsFrom(conversationHistory, 2)

\* C11's failing case: a compression has taken a summary, a pair and the
\* question of the next pair, and has left that pair's answer behind the summary
C11_Witness ==
  /\ Len(conversationHistory) >= 2
  /\ C11_IsSummary(conversationHistory[1])
  /\ conversationHistory[2].role = "assistant"
  /\ ~C11_IsSummary(conversationHistory[2])

\* the count the claim computes for 10 messages under a limit of 6: the largest
\* even number <= 10 - floor(6 * 0.6)
C12_toCompressCount == 2 * ((10 - ((6 * 6) \div 10)) \div 2)

\* C12: with maxHistoryRounds = 3 and 5 rounds recorded one after another on an
\* initially empty history, after the 5th record the stored history holds
\* 1 + (10 - toCompressCount) messages, i.e. 5.
C12_LengthAfterFiveRecords ==
  (maxHistoryRounds = 3 /\ recorded = 5) =>
    Len(conversationHistory) = 1 + (10 - C12_toCompressCount)

\* C12's failing case: after the 5th record the history holds 4 messages, a
\* summary, the 4th round's answer and the 5th round
C12_Witness ==
  /\ maxHistoryRounds = 3
  /\ recorded = 5
  /\ Len(conversationHistory) = 4
  /\ C11_IsSummary(conversationHistory[1])
  /\ conversationHistory[2].role = "assistant"
  /\ conversationHistory[3] = [role |-> "user", content |-> question]

\* C13: the most recent exchange is never summarized away: for every
\* maxHistoryRounds >= 1, right after each record (with any compression it
\* triggers) the stored history ends with the just-recorded user question
\* followed by the just-recorded assistant message, both verbatim.
C13_LastExchangeVerbatim ==
  recorded > 0 =>
    /\ Len(conversationHistory) >= 2
    /\ conversationHistory[Len(conversationHistory) - 1] =
         [role |-> "user", content |-> question]
    /\ conversationHistory[Len(conversationHistory)] =
         [role |-> "assistant",
          content |-> assistantMessage(result.answer, result.steps)]

\* C13's failing case: the third record under a bound of one round leaves the
\* summary and the new assistant message, the new question being in the summary
C13_Witness ==
  /\ maxHistoryRounds = 1
  /\ recorded = 3
  /\ Len(conversationHistory) = 2
  /\ C11_IsSummary(conversationHistory[1])
  /\ Contains(conversationHistory[1].content, "A: " \o question \o "\n")
  /\ conversationHistory[2] =
       [role |-> "assistant",
        content |-> assistantMessage(result.answer, result.steps)]

\* C14 as stated: bounded memory: for every maxHistoryRounds >= 1 and every
\* sequence of serialized runs, after each run returns the number of stored
\* messages is at most maxHistoryRounds * 2.
C14_AtMostTwiceTheRounds ==
  Len(conversationHistory) <= maxHistoryRounds * 2

\* C14, amended: after each run returns the number of stored messages is at most
\* maxHistoryRounds * 2 when maxHistoryRounds >= 2, and at most 3 (a summary and
\* the last round) when maxHistoryRounds = 1.
C14_BoundedMemory ==
  Len(conversationHistory) <=
    (IF maxHistoryRounds = 1 THEN 3 ELSE maxHistoryRounds * 2)

\* C14's case: a compression has run and the history is at its bound
C14_Witness ==
  /\ maxHistoryRounds = 2
  /\ recorded = 4
  /\ pc = "returned"
  /\ C11_IsSummary(conversationHistory[1])
  /\ Len(conversationHistory) = 4

\* the round (q, a) is stored verbatim in h: its user message followed by its
\* assistant message
C15_Verbatim(q, a, h) ==
  \E i \in 1..(Len(h) - 1), s \in MemorySteps :
    /\ h[i] = [role |-> "user", content |-> q]
    /\ h[i + 1] = [role |-> "assistant", content |-> assistantMessage(a, s)]

\* the round (q, a) has its own entry in a summary message of h: the question
\* after "Q: " and the answer after "A: "
C15_Summarized(q, a, h) ==
  \E i \in 1..Len(h) :
    /\ C11_IsSummary(h[i])
    /\ Contains(h[i].content, " r - Q: " \o q \o "\n         A: " \o a \o "\n\n")

C15_Represented(q, a, h) == C15_Verbatim(q, a, h) \/ C15_Summarized(q, a, h)

\* C15: older context is never silently dropped: until clearHistory() is called
\* every round that was recorded is represented in the stored history, verbatim
\* or by its own question/answer entry in the stored summary message, also after
\* a second and later compressions.  Stated on the steps that record a round:
\* the round just recorded is represented, and so is every round that was.
C15_NothingDropped ==
  [][recorded' = recorded + 1 =>
       /\ C15_Represented(question', result'.answer, conversationHistory')
       /\ \A q \in Questions, a \in MemoryAnswers :
            C15_Represented(q, a, conversationHistory) =>
              C15_Represented(q, a, conversationHistory')]_vars

\* C15's failing case: after a second compression (bound 3, fifth record) the
\* third round, asked as q2 and answered 0 while every other round was q1 and
\* done, is in the history neither verbatim nor as an entry of the summary
C15_Witness ==
  /\ maxHistoryRounds = 3
  /\ recorded = 5
  /\ question = "q1"
  /\ result.answer = "done"
  /\ C11_IsSummary(conversationHistory[1])
  /\ Contains(conversationHistory[1].content, "A: q2\n")
  /\ Contains(conversationHistory[1].content, "Q: " \o AnswerMarker \o "0\n")
  /\ ~C15_Represented("q2", "0", conversationHistory)
  /\ ~C15_Represented("q2", "done", conversationHistory)
  /\ ~C15_Represented("q1", "0", conversationHistory)

\* the names a program may ask the registry for
C16_Names == {tool.name : tool \in ToolPool} \cup {"ghost"}

\* the first entry of the registry under the name, if there is one
C16_First(name) ==
  IF \E i \in 1..Len(registry) : registry[i].name = name
    THEN registry[CHOOSE i \in 1..Len(registry) :
                    /\ registry[i].name = name
                    /\ \A j \in 1..(i - 1) : registry[j].name # name]
  ELSE NoTool.tool

\* C16: registry uniqueness: register(tool) under a name that is already
\* registered fails with an error and leaves the registry unchanged, so
\* get(name) still returns the first tool registered under the name and
\* getNames() is unchanged; get(name) for a name never registered returns the
\* absent indicator (and does not throw).
C16_RegistryUniqueness ==
  /\ [][\A tool \in ToolPool :
          ((\E i \in 1..Len(registry) : registry[i].name = tool.name)
            /\ register(tool)) =>
             /\ threw' = "Tool with name \"" \o tool.name \o "\" already registered"
             /\ registry' = registry
             /\ get(registry', tool.name) = [found |-> TRUE, tool |-> C16_First(tool.name)]
             /\ getNamesOf(registry') = getNamesOf(registry)]_vars
  /\ [](\A name \in C16_Names :
          IF \E i \in 1..Len(registry) : registry[i].name = name
            THEN get(registry, name) = [found |-> TRUE, tool |-> C16_First(name)]
            ELSE get(registry, name) = NoTool)
  /\ [](\A i, j \in 1..Len(registry) : registry[i].name = registry[j].name => i = j)

\* C16's case: a second tool was offered under the first one's name, the call
\* threw and the first tool is still the one registered
C16_Witness ==
  /\ threw = "Tool with name \"calculator\" already registered"
  /\ Len(registry) = 2
  /\ registry[1] = [name |-> "calculator", description |-> "v1"]
  /\ get(registry, "calculator").tool.description = "v1"
  /\ ~get(registry, "http_get").found

\* C17: catalog completeness: after any sequence of successful register calls,
\* getNames() returns exactly the names of the registered tools, no more and no
\* fewer, in registration order (each successful register appends its tool's
\* name, a failed one changes nothing), and getDescriptions() contains each
\* registered tool's name and description.
C17_CatalogComplete ==
  /\ [][\A tool \in ToolPool :
          register(tool) =>
            getNamesOf(registry') =
              (IF threw' = "" THEN Append(getNamesOf(registry), tool.name)
               ELSE getNamesOf(registry))]_vars
  /\ [](/\ Len(getNamesOf(registry)) = Len(registry)
        /\ \A i \in 1..Len(registry) :
             /\ getNamesOf(registry)[i] = registry[i].name
             /\ Contains(getDescriptionsOf(registry),
                         registry[i].name \o ": " \o registry[i].description)
        /\ \A name \in C16_Names :
             (\E i \in 1..Len(getNamesOf(registry)) : getNamesOf(registry)[i] = name)
               <=> get(registry, name).found)

\* C17's case: three tools registered, the catalog lists them in that order
C17_Witness ==
  /\ getNamesOf(registry) = << "read_file", "http_get", "calculator" >>
  /\ threw = ""
  /\ Contains(getDescriptionsOf(registry), "http_get: v2")
  /\ Contains(getDescriptionsOf(registry), "calculator: v1")

\* C18: configuration errors are fatal at construction: constructing a
\* ReActAgent without a credential (API key) or without a model identifier fails
\* in the constructor, in both call forms, and is never deferred to run(): an
\* agent that was constructed has a key and a model.
C18_MisconfigurationIsFatal ==
  constructed = "yes" => (openai.apiKey # "" /\ config.model # "")

\* C18's failing case: the constructor has returned an agent that has a key and
\* no model, idle and ready for run()
C18_Witness ==
  /\ constructed = "yes"
  /\ threw = ""
  /\ openai.apiKey = "sk"
  /\ config.model = ""
  /\ pc = "idle"

\* a step of the caller on the array getHistory() gave it
C19_CallerStep ==
  \/ callerPush
  \/ callerPop
  \/ \E i \in 1..Len(returned), field \in {"role", "content"}, w \in Written :
       callerWrites(i, field, w)

\* C19: getHistory() returns a defensive copy: no change a caller makes to the
\* returned value (adding or removing elements, changing the role or content of
\* a returned message) is observable in a later getHistory() result or in the
\* messages a later run sends to the model.
C19_DefensiveCopy ==
  [][C19_CallerStep =>
       /\ getHistory' = getHistory
       /\ \A q \in Questions :
            callLLM(conversationHistory', q, << >>)
              = callLLM(conversationHistory, q, << >>)]_vars

\* C19's failing case: the caller still holds the array, and the stored first
\* message reads what the caller wrote into element 1
C19_Witness ==
  /\ Len(returned) >= 1
  /\ returned[1] = 1
  /\ recorded = 1
  /\ getHistory[1] = [role |-> "user", content |-> "x"]
  /\ callLLM(conversationHistory, "q1", << >>)[2] = [role |-> "user", content |-> "x"]

\* the rounds h holds: the user messages followed by their assistant message
C20_RoundsHeld(h) ==
  Cardinality({ i \in 1..(Len(h) - 1) :
                  /\ h[i].role = "user"
                  /\ h[i + 1].role = "assistant"
                  /\ ~C11_IsSummary(h[i + 1]) })

\* C20: getHistorySummary() returns the empty-state message exactly when no
\* message is stored; otherwise it reports M, the number of stored messages, and
\* N, the number of rounds held, a whole number, in every reachable history
\* state, states reached after a compression included.
C20_SummaryCounts ==
  IF Len(conversationHistory) = 0
    THEN getHistorySummary(conversationHistory) = "no conversation history"
  ELSE getHistorySummary(conversationHistory) =
         ToString(C20_RoundsHeld(conversationHistory)) \o " rounds, "
           \o ToString(Len(conversationHistory)) \o " messages"

\* C20's failing case: a summary and one round are stored, and the report counts
\* one round and a half
C20_Witness ==
  /\ Len(conversationHistory) = 3
  /\ C11_IsSummary(conversationHistory[1])
  /\ C20_RoundsHeld(conversationHistory) = 1
  /\ getHistorySummary(conversationHistory) = "1.5 rounds, 3 messages"

\* ------------------------------------------------------------- termination
\* run() is called with enough of the model's call allowance left for all the
\* iterations of its loop, so that no run is cut short by the allowance
startRunToCompletion(q) ==
  /\ calls + maxIterations <= MaxCalls
  /\ StartRun(q)

LiveNext ==
  \/ \E q \in Questions : startRunToCompletion(q)
  \/ \E resp \in Responses : LLMSettles(resp)
  \/ \E outcome \in ToolOutcomes : ToolSettles(outcome)

\* the awaited model call settles, by a value or by an exception: run leaves
\* its `await this.callLLM` (line 130); these are the steps of LLMSettles
llmCallSettles ==
  /\ pc = "callLLM"
  /\ pc' \in {"executeTool", "returned"}

\* the awaited tool execution settles, by a value or by an exception: run
\* leaves its `await this.executeTool` (line 192); these are the steps of
\* ToolSettles, which the call allowance enables
toolCallSettles ==
  /\ pc = "executeTool"
  /\ loopContinues(iteration + 1, maxIterations) => calls < MaxCalls
  /\ pc' \in {"callLLM", "returned"}

\* the runs under the hypothesis that every awaited promise settles: the model
\* call and the tool execution are the only awaits of run
SpecLive ==
  /\ Init
  /\ [][LiveNext]_vars
  /\ WF_pc(llmCallSettles)
  /\ WF_pc(toolCallSettles)

\* the result was returned by the final-answer branch
C21_ByFinalAnswer ==
  /\ Len(result.steps) > 0
  /\ ~Truthy(result.steps[Len(result.steps)].action)
  /\ caught = ""

\* the result was returned by the repetition check
C21_ByRepetition ==
  /\ Len(result.steps) >= 2
  /\ result.answer = repetitionAnswer(result.steps)

\* the result was returned by the catch block
C21_ByError == caught # "" /\ result.answer = "sorry, an error occurred: " \o caught

\* the result was returned after the loop
C21_ByBudget == result.answer = budgetAnswer /\ iteration = maxIterations

\* how many of the four exits the result bears the marks of
C21_ExitsTaken ==
  Cardinality({ e \in {"final", "repetition", "error", "budget"} :
                  \/ e = "final" /\ C21_ByFinalAnswer
                  \/ e = "repetition" /\ C21_ByRepetition
                  \/ e = "error" /\ C21_ByError
                  \/ e = "budget" /\ C21_ByBudget })

\* C21: when every model call and every tool execution settles, every run()
\* that was called returns, its promise fulfilled, and the result it returns
\* is that of exactly one of the four exits: final answer, repetition check,
\* caught error, or exhausted iteration budget
C21_Termination ==
  /\ (pc \in {"callLLM", "executeTool"}) ~> (pc = "returned")
  /\ [](pc = "returned" =>
          /\ result.status = "fulfilled"
          /\ exit \in {"final", "repetition", "error", "budget"}
          /\ C21_ExitsTaken = 1
          /\ exit = "final" => C21_ByFinalAnswer
          /\ exit = "repetition" => C21_ByRepetition
          /\ exit = "error" => C21_ByError
          /\ exit = "budget" => C21_ByBudget)

\* a run of two iterations has returned through the budget exit, two tool
\* steps taken
C21_Witness ==
  /\ pc = "returned"
  /\ exit = "budget"
  /\ Len(result.steps) = 2
  /\ maxIterations = 2
  /\ calls = 2

\* ------------------------------------------------ the callers of formatObservation
\* the arguments formatObservation is called with
ObservedTools == {"calculator", "read_file"}
ObservedData == {JStr("4"), JNum(4)}
ObservedErrors == {JUndef, JStr("bad input")}

\* a call of formatObservation(toolName, success, data, error)
observe(toolName, success, data, error) ==
  /\ Len(observations) < MaxObservations
  /\ observations' =
       Append(observations,
              [toolName |-> toolName, success |-> success, data |-> data,
               error |-> error, held |-> Len(conversationHistory),
               text |-> formatObservation(toolName, success, data, error)])
  /\ UNCHANGED << maxIterations, maxHistoryRounds, conversationHistory, pc,
                  question, steps, totalTokens, iteration, request, response,
                  pending, result, exit, caught, cleared, usageSeen, llmCalls,
                  dispatches, toolExecs, saves, calls, runs, recorded, registry,
                  threw, returned, constructed, config, openai, generated,
                  inflight >>

\* an agent that is used while observations are rendered
ObserveInit ==
  /\ maxIterations = MaxIterations
  /\ maxHistoryRounds = MaxHistoryRounds
  /\ Fresh
  /\ Built

ObserveNext ==
  \/ \E toolName \in ObservedTools, success \in BOOLEAN, data \in ObservedData,
        error \in ObservedErrors :
       observe(toolName, success, data, error)
  \/ \E q \in Questions, answer \in MemoryAnswers, stps \in MemorySteps :
       recorded < MaxObservedRecords /\ record(q, answer, stps)
  \/ clearHistory

SpecObserve == ObserveInit /\ [][ObserveNext]_vars

\* two calls were given the same arguments
C22_SameArguments(a, b) ==
  /\ a.toolName = b.toolName
  /\ a.success = b.success
  /\ a.data = b.data
  /\ a.error = b.error

\* the data as a success shows it: a string as it is, a number as its JSON text
C22_Serialized(data) == IF data.t = "string" THEN data.s ELSE ToString(data.n)

\* the error as a failure shows it
C22_ErrorText(error) == IF error.t = "string" THEN error.s ELSE "undefined"

C23_Configured(v, default) == IF v.t = "number" THEN v.n ELSE default

\* a stored history of k messages, whole rounds first
C23_History(k) ==
  [i \in 1..k |->
     IF i % 2 = 1 THEN [role |-> "user", content |-> "q1"]
     ELSE [role |-> "assistant", content |-> assistantMessage("done", << >>)]]

\* C23: an agent that was constructed runs its loop for as many iterations as
\* the configuration gives for maxIterations, and compresses a history exactly
\* when it is longer than twice the maxHistoryRounds the configuration gives;
\* each is 10 when the configuration does not give it
C23_BudgetsAsConfigured ==
  [][\A form \in {"key", "config"}, key \in Keys, cfg \in Configs,
        clientThrows \in BOOLEAN :
       (constructor(form, key, cfg, clientThrows) /\ constructed' = "yes") =>
         LET iterations ==
               C23_Configured(cfg.maxIterations, DefaultMaxIterations)
             rounds ==
               C23_Configured(cfg.maxHistoryRounds, DefaultMaxHistoryRounds)
         IN /\ \A i \in 0..(iterations + 1) :
                 loopContinues(i, maxIterations') <=> i < iterations
            /\ compressHistoryIfNeeded(C23_History(2 * rounds), maxHistoryRounds')
                 = C23_History(2 * rounds)
            /\ compressHistoryIfNeeded(C23_History(2 * rounds + 1),
                                       maxHistoryRounds')
                 # C23_History(2 * rounds + 1)]_vars

\* an agent was constructed from a configuration that gives 2 iterations and
\* no maxHistoryRounds
C23_Witness ==
  /\ constructed = "yes"
  /\ maxIterations = 2
  /\ maxHistoryRounds = DefaultMaxHistoryRounds

\* the history of a record step once its two messages are pushed, before
\* compressHistoryIfNeeded looks at it
C24_Pushed ==
  conversationHistory
    \o << [role |-> "user", content |-> question'],
          [role |-> "assistant",
           content |-> assistantMessage(result'.answer, result'.steps)] >>

\* the step records an exchange
C24_Records == recorded' = recorded + 1

\* limit = maxHistoryRounds * 2
C24_limit == maxHistoryRounds * 2

\* toCompressCount = 2 * floor((total - floor(limit * 0.6)) / 2)
C24_toCompressCount(total) == 2 * ((total - ((C24_limit * 6) \div 10)) \div 2)

\* C24: whenever compression fires on a history of total messages, it takes the
\* oldest toCompressCount messages away, puts one synthetic assistant message
\* at the head in their place and keeps the other total - toCompressCount
\* messages as they were and in order, the result being 1 + (total -
\* toCompressCount) long; with toCompressCount < 2 the history is left as it is
C24_CompressionStep ==
  [][(C24_Records /\ Len(C24_Pushed) > C24_limit) =>
       LET total == Len(C24_Pushed)
           n == C24_toCompressCount(total)
       IN IF n < 2 THEN conversationHistory' = C24_Pushed
          ELSE /\ Len(conversationHistory') = 1 + (total - n)
               /\ C11_IsSummary(conversationHistory'[1])
               /\ \A k \in 2..Len(conversationHistory') :
                    ~C11_IsSummary(conversationHistory'[k])
               /\ SubSeq(conversationHistory', 2, Len(conversationHistory'))
                    = SubSeq(C24_Pushed, n + 1, total)]_vars

\* the fourth record under a bound of three rounds has compressed eight
\* messages to a summary and the last two rounds
C24_Witness ==
  /\ maxHistoryRounds = 3
  /\ recorded = 4
  /\ Len(conversationHistory) = 5
  /\ C11_IsSummary(conversationHistory[1])
  /\ conversationHistory[2].role = "user"
  /\ conversationHistory[4] = [role |-> "user", content |-> question]

\* C25: a record that leaves at most maxHistoryRounds * 2 messages is a pure
\* append: the history is the previous history, every message unchanged and in
\* order, followed by the new user message and the new assistant message
C25_PureAppend ==
  [][(C24_Records /\ Len(conversationHistory) + 2 <= maxHistoryRounds * 2) =>
       /\ Len(conversationHistory') = Len(conversationHistory) + 2
       /\ SubSeq(conversationHistory', 1, Len(conversationHistory))
            = conversationHistory
       /\ conversationHistory'[Len(conversationHistory) + 1]
            = [role |-> "user", content |-> question']
       /\ conversationHistory'[Len(conversationHistory) + 2]
            = [role |-> "assistant",
               content |-> assistantMessage(result'.answer, result'.steps)]]_vars

\* the third record under a bound of three rounds has filled the history to
\* its limit, nothing compressed
C25_Witness ==
  /\ maxHistoryRounds = 3
  /\ recorded = 3
  /\ Len(conversationHistory) = 6
  /\ \A k \in 1..6 : ~C11_IsSummary(conversationHistory[k])
  /\ conversationHistory[5] = [role |-> "user", content |-> question]

\* how many messages compression means to keep: floor(0.6 * maxHistoryRounds * 2)
C26_keep == (6 * maxHistoryRounds * 2) \div 10

\* C26: after every compression the summary message is followed by the most
\* recent messages verbatim, at least floor(0.6 * maxHistoryRounds * 2) of them
\* and at most one more
C26_Recency ==
  [][(C24_Records /\ Len(C24_Pushed) > maxHistoryRounds * 2) =>
       LET kept == Len(conversationHistory') - 1
       IN /\ C11_IsSummary(conversationHistory'[1])
          /\ kept >= C26_keep
          /\ kept <= C26_keep + 1
          /\ SubSeq(conversationHistory', 2, kept + 1)
               = SubSeq(C24_Pushed, Len(C24_Pushed) - kept + 1,
                        Len(C24_Pushed))]_vars

\* the third record under a bound of two rounds has left the summary and the
\* last round, two messages being what compression means to keep
C26_Witness ==
  /\ maxHistoryRounds = 2
  /\ recorded = 3
  /\ Len(conversationHistory) = 3
  /\ C11_IsSummary(conversationHistory[1])
  /\ conversationHistory[2] = [role |-> "user", content |-> question]

\* the messages a compression step takes away
C27_Cut == SubSeq(C24_Pushed, 1, C24_toCompressCount(Len(C24_Pushed)))

\* text holds pat at position i
C27_At(text, i, pat) ==
  /\ i + Len(pat) - 1 <= Len(text)
  /\ SubSeq(text, i, i + Len(pat) - 1) = pat

\* a recorded round starts at message k of cut: a user question followed by
\* the assistant resolution of that question
C27_RoundAt(cut, k) ==
  /\ k + 1 <= Len(cut)
  /\ cut[k].role = "user"
  /\ cut[k + 1].role = "assistant"
  /\ ~C11_IsSummary(cut[k + 1])

\* the answer an assistant resolution was recorded with
C27_AnswerOf(m) ==
  CHOOSE a \in MemoryAnswers :
    \E s \in MemorySteps : m.content = assistantMessage(a, s)

\* the entry of the round at message k of cut, from its Q on
C27_Entry(cut, k) ==
  " r - Q: " \o cut[k].content \o "\n         A: "
    \o C27_AnswerOf(cut[k + 1]) \o "\n\n"

\* C27: in the summary message of every compression of a session, each entry
\* has as Q a recorded user question and as A the assistant resolution of that
\* question, the entries come in the order of the rounds, and the round count
\* in the heading is the number of rounds that were compressed
C27_SummaryPairsRounds ==
  [][(C24_Records /\ Len(C24_Pushed) > C24_limit) =>
       LET text == conversationHistory'[1].content
           cut == C27_Cut
           rounds == { k \in 1..Len(cut) : C27_RoundAt(cut, k) }
           entries == { i \in 1..Len(text) : C27_At(text, i, " r - Q: ") }
       IN /\ C27_At(text, 1,
                    "early rounds (" \o ToString(Cardinality(rounds)) \o " cut)")
          /\ \A i \in entries :
               \E k \in rounds : C27_At(text, i, C27_Entry(cut, k))
          /\ \A i, j \in entries :
               i < j =>
                 \E k, l \in rounds :
                   /\ k < l
                   /\ C27_At(text, i, C27_Entry(cut, k))
                   /\ C27_At(text, j, C27_Entry(cut, l))]_vars

\* C27's failing case: the second compression of a session (bound 2, fourth
\* record) has made an entry whose Q is the earlier summary and whose A is the
\* third question
C27_Witness ==
  /\ maxHistoryRounds = 2
  /\ recorded = 4
  /\ C11_IsSummary(conversationHistory[1])
  /\ Contains(conversationHistory[1].content, " r - Q: early rounds (")
  /\ \E q \in Questions :
       Contains(conversationHistory[1].content, "\n         A: " \o q \o "\n\n")

\* the model call has settled with a decision that proposes an action and no
\* final answer, and the step list is the one the decision was taken on
C28_Proposal ==
  /\ pc \in {"executeTool", "returned"}
  /\ ValidDecision
  /\ NoFinalProposed
  /\ response.obj.action.t = "string"
  /\ response.obj.action.s # ""

\* step i has the action name and the serialized input of the proposal
C28_Same(i) ==
  /\ i \in 1..Len(steps)
  /\ steps[i].action = response.obj.action
  /\ JSONstringify(steps[i].actionInput)
       = JSONstringify(IF Nullish(response.obj.actionInput) THEN JUndef
                       ELSE response.obj.actionInput)

\* the proposal was handed to executeTool
C28_Executed ==
  /\ pc = "executeTool"
  /\ exit = ""
  /\ pending.action = response.obj.action
  /\ dispatches = Len(steps) + 1

\* C28: a proposal identical to the step before it, and not to the two steps
\* before it, is executed; the repetition exit is taken only when both of the
\* last two steps have the action name and the serialized input of the
\* proposal; a proposal identical to the step before the last, a different one
\* between them, is executed
C28_OneRetryTolerated ==
  /\ (C28_Proposal /\ C28_Same(Len(steps)) /\ ~C28_Same(Len(steps) - 1))
       => C28_Executed
  /\ (pc = "returned" /\ exit = "repetition")
       => (C28_Proposal /\ C28_Same(Len(steps)) /\ C28_Same(Len(steps) - 1))
  /\ (C28_Proposal /\ C28_Same(Len(steps) - 1) /\ ~C28_Same(Len(steps)))
       => C28_Executed

\* the third proposal of a run repeats the second step and is being executed,
\* the first step having called the same tool with another input
C28_Witness ==
  /\ C28_Proposal
  /\ pc = "executeTool"
  /\ Len(steps) = 2
  /\ C28_Same(2)
  /\ steps[1].action = steps[2].action
  /\ ~C28_Same(1)

\* the step makes a model request
C29_Requests == calls' = calls + 1

\* step i of stps as a user message shows it: its number, its thought, its
\* action, its serialized input and its observation
C29_Rendered(stps, i) ==
  "[step " \o ToString(i) \o "]\n"
    \o "thought: " \o stps[i].thought \o "\n"
    \o "action: " \o String(stps[i].action) \o "\n"
    \o "input: " \o String(JSONstringify(stps[i].actionInput)) \o "\n"
    \o "observation: " \o String(stps[i].observation) \o "\n"

\* C29: the request of iteration k of a run is the system prompt, then the
\* conversation history as stored when the request is made, then one user
\* message that shows the question and the k - 1 steps of iterations 1..k-1 of
\* this run, those and no others, in order, each with its action, its input and
\* its observation
C29_RequestOfIteration ==
  [][C29_Requests =>
       LET k == llmCalls'
           n == Len(request')
           user == request'[n].content
           marks == { p \in 1..Len(user) : C27_At(user, p, "[step ") }
       IN /\ k = iteration' + 1
          /\ Len(steps') = k - 1
          /\ n = Len(conversationHistory) + 2
          /\ request'[1] =
               [role |-> "system",
                content |-> generateSystemPrompt(getDescriptions, getNames)]
          /\ SubSeq(request', 2, n - 1) = conversationHistory
          /\ conversationHistory' = conversationHistory
          /\ request'[n].role = "user"
          /\ Contains(user, question')
          /\ Cardinality(marks) = k - 1
          /\ \A p \in marks :
               C27_At(user, p,
                      C29_Rendered(steps', Cardinality({ m \in marks : m <= p })))]_vars

\* the second request of a run is in flight: it holds the exchange an earlier
\* run recorded and the step of the first iteration
C29_Witness ==
  /\ pc = "callLLM"
  /\ llmCalls = 2
  /\ Len(steps) = 1
  /\ Len(conversationHistory) = 2
  /\ Len(request) = 4
  /\ request[2] = conversationHistory[1]
  /\ Contains(request[4].content, "observation: " \o steps[1].observation.s)

\* the step carries an action
C30_HasAction(step) == step.action # JUndef

\* the step carries an observation
C30_HasObservation(step) == step.observation # JUndef

\* every step of stps carries an action exactly when it carries an observation,
\* and a step that carries neither is the last one, of a run that has returned
\* through the final-answer exit
C30_WellFormed(stps) ==
  \A i \in 1..Len(stps) :
    /\ C30_HasAction(stps[i]) <=> C30_HasObservation(stps[i])
    /\ C30_HasAction(stps[i]) =>
         Truthy(stps[i].action) /\ Truthy(stps[i].observation)
    /\ ~C30_HasAction(stps[i]) =>
         i = Len(stps) /\ pc = "returned" /\ exit = "final"

\* C30: in the step list of every run, at every point and in every returned
\* result, each step carries an action if and only if it carries an
\* observation; a thought-only step is the last step of a run that ended with a
\* final answer; and the list of a run only grows at its end, no step of it
\* being reordered, removed or changed
C30_StepsWellFormed ==
  /\ [](/\ C30_WellFormed(steps)
        /\ result.status = "fulfilled" =>
             (result.steps = steps /\ C30_WellFormed(result.steps)))
  /\ [][\/ steps' = steps
        \/ /\ Len(steps') = Len(steps) + 1
           /\ SubSeq(steps', 1, Len(steps)) = steps
           /\ pc \in {"callLLM", "executeTool"}
        \/ /\ runs' = runs + 1
           /\ steps' = << >>]_vars

\* a run has returned a final answer in its third iteration: two steps with
\* action and observation, then the thought-only step
C30_Witness ==
  /\ pc = "returned"
  /\ exit = "final"
  /\ Len(result.steps) = 3
  /\ C30_HasObservation(result.steps[1])
  /\ C30_HasObservation(result.steps[2])
  /\ ~C30_HasAction(result.steps[3])
  /\ ~C30_HasObservation(result.steps[3])

\* the tool executions of the run that have resolved: each pushed one step that
\* carries an action
C31_ToolsResolved ==
  Cardinality({ i \in 1..Len(steps) : steps[i].action # JUndef })

\* the model calls of the run that have resolved: each went on to executeTool,
\* or returned from run by the final answer, the repetition check or the catch
C31_ModelCallsResolved ==
  dispatches
    + (IF pc = "returned" /\ exit \in {"final", "repetition", "error"}
         THEN 1 ELSE 0)

\* the model calls and the tool executions of the run that are in flight
C31_ModelCallsInFlight == llmCalls - C31_ModelCallsResolved
C31_ToolsInFlight == dispatches - C31_ToolsResolved

\* C31: within one run at most one model call or tool execution is in flight;
\* the tool execution of iteration k starts only after the model call of
\* iteration k has resolved, and the model call of iteration k + 1 only after
\* the tool execution of iteration k has resolved
C31_IterationsDoNotOverlap ==
  /\ [](/\ C31_ModelCallsInFlight \in {0, 1}
        /\ C31_ToolsInFlight \in {0, 1}
        /\ C31_ModelCallsInFlight + C31_ToolsInFlight <= 1
        /\ C31_ModelCallsInFlight = 1 <=> pc = "callLLM"
        /\ C31_ToolsInFlight = 1 <=> pc = "executeTool")
  /\ [][/\ dispatches' = dispatches + 1 =>
             /\ pc = "callLLM"
             /\ dispatches' = llmCalls
             /\ llmCalls' = llmCalls
        /\ (llmCalls' = llmCalls + 1 /\ runs' = runs) =>
             /\ pc = "executeTool"
             /\ dispatches = llmCalls
             /\ Len(steps') = llmCalls
             /\ dispatches' = dispatches]_vars

\* the tool execution of the second iteration is in flight, both model calls
\* and the first tool execution resolved
C31_Witness ==
  /\ pc = "executeTool"
  /\ llmCalls = 2
  /\ dispatches = 2
  /\ C31_ToolsResolved = 1
  /\ C31_ModelCallsInFlight = 0
  /\ C31_ToolsInFlight = 1

\* C32: the cost counter of a run starts at zero, and on every exit path the
\* totalTokens of the result is the sum of the usage totals of the model calls
\* that returned during the run, a completion without usage counting as 0
C32_TokensAreUsageSum ==
  /\ (pc = "callLLM" /\ llmCalls = 1) => totalTokens = 0
  /\ pc \in {"callLLM", "executeTool"} => totalTokens = usageSeen
  /\ pc = "returned" =>
       /\ exit \in {"final", "repetition", "error", "budget"}
       /\ result.totalTokens = usageSeen
       /\ result.totalTokens = totalTokens

\* a run has returned through the repetition check: its first two completions
\* reported 5 tokens each and the third reported no usage
C32_Witness ==
  /\ pc = "returned"
  /\ exit = "repetition"
  /\ llmCalls = 3
  /\ ~response.rejects
  /\ response.usage = JUndef
  /\ result.totalTokens = 10

\* the steps of stps that have both an action and an observation
C33_ActionSteps(stps) ==
  { i \in 1..Len(stps) : Truthy(stps[i].action) /\ Truthy(stps[i].observation) }

\* the r-th of them, in step order
C33_Nth(stps, r) ==
  CHOOSE i \in C33_ActionSteps(stps) :
    Cardinality({ j \in C33_ActionSteps(stps) : j <= i }) = r

\* the line of step i: its number, its action and its observation
C33_Line(stps, i) ==
  "- st" \o ToString(i) \o ": by " \o stps[i].action.s \o " gave: "
    \o stps[i].observation.s \o "\n"

\* C33: the exchange a run records is a user message that is the question
\* verbatim and an assistant message that holds, in step order, one line for
\* each step with both an action and an observation, naming the two, no line
\* for a thought-only step, and after the lines the answer: the history after
\* the record is what compressHistoryIfNeeded leaves of the history before it
\* with these two messages pushed, the assistant message being its last
C33_AssistantMessage ==
  [][saves' = saves + 1 =>
       \E n \in {Len(conversationHistory')} :
       \E text \in {conversationHistory'[n].content} :
       \E tail \in {AnswerMarker \o result'.answer} :
       \E lines \in {{ p \in 1..Len(text) : C27_At(text, p, "- st") }} :
         /\ n >= 2
         /\ conversationHistory'
              = compressHistoryIfNeeded(
                  conversationHistory
                    \o << [role |-> "user", content |-> question],
                          conversationHistory'[n] >>,
                  maxHistoryRounds)
         /\ conversationHistory'[n].role = "assistant"
         /\ Cardinality(lines) = Cardinality(C33_ActionSteps(result'.steps))
         /\ \A p \in lines :
              /\ C27_At(text, p,
                        C33_Line(result'.steps,
                                 C33_Nth(result'.steps,
                                         Cardinality({ m \in lines : m <= p }))))
              /\ p < Len(text) - Len(tail) + 1
         /\ C27_At(text, Len(text) - Len(tail) + 1, tail)]_vars

\* a run that took two tool steps and then gave its final answer has recorded
\* an assistant message with two lines and the answer
C33_Witness ==
  /\ pc = "returned"
  /\ exit = "final"
  /\ Len(result.steps) = 3
  /\ Cardinality(C33_ActionSteps(result.steps)) = 2
  /\ Len(conversationHistory) >= 2
  /\ conversationHistory[Len(conversationHistory)].content
       = "work:\n" \o C33_Line(result.steps, 1) \o C33_Line(result.steps, 2)
           \o "\n" \o AnswerMarker \o result.answer

\* ------------------------------------------------------ the type generator
\* how many schemas one call of execute is given
MaxSchemas == 2

\* a schema nested in another: its type, its $ref, the type of its items and
\* its properties, "" and << >> for what it does not have; items and nested
\* properties are schemas of a basic type and are held by the name of the type
Nested(type, ref, items, description) ==
  [type |-> type, ref |-> ref, items |-> items, description |-> description,
   hasProperties |-> FALSE, properties |-> << >>, required |-> {}]

\* a schema of the `schemas` object
Schema(type, ref, items, description, hasProperties, properties, required, hasEnum, enum) ==
  [type |-> type, ref |-> ref, items |-> items, description |-> description,
   hasProperties |-> hasProperties, properties |-> properties,
   required |-> required, hasEnum |-> hasEnum, enum |-> enum]

\* the entries of the `schemas` objects execute is called with: objects with
\* and without required properties and with no properties, enums of strings
\* and of numbers, an array, a primitive and a reference
SchemaPool ==
  { [name |-> "User",
     schema |-> Schema("object", "", "", "a user", TRUE,
                       << [name |-> "id", schema |-> Nested("string", "", "", "key")],
                          [name |-> "age", schema |-> Nested("integer", "", "", "")],
                          [name |-> "pets",
                           schema |-> Nested("array", "", "string", "")] >>,
                       {"id"}, FALSE, << >>)],
    [name |-> "Pet",
     schema |-> Schema("object", "", "", "", TRUE,
                       << [name |-> "tag", schema |-> Nested("", "#/defs/Tag", "", "")],
                          [name |-> "at",
                           schema |-> [type |-> "object", ref |-> "", items |-> "",
                                       description |-> "", hasProperties |-> TRUE,
                                       properties |->
                                         << [name |-> "x", type |-> "number"],
                                            [name |-> "y", type |-> "number"] >>,
                                       required |-> {"x"}]] >>,
                       {}, FALSE, << >>)],
    [name |-> "Bag",
     schema |-> Schema("object", "", "", "", FALSE, << >>, {}, FALSE, << >>)],
    [name |-> "Status",
     schema |-> Schema("string", "", "", "state", FALSE, << >>, {}, TRUE,
                       << JStr("active"), JStr("inactive") >>)],
    [name |-> "Level",
     schema |-> Schema("integer", "", "", "", FALSE, << >>, {}, TRUE,
                       << JNum(1), JNum(2) >>)],
    [name |-> "Tags",
     schema |-> Schema("array", "", "string", "", FALSE, << >>, {}, FALSE, << >>)],
    [name |-> "Id",
     schema |-> Schema("string", "", "", "", FALSE, << >>, {}, FALSE, << >>)],
    [name |-> "Owner",
     schema |-> Schema("", "#/components/schemas/User", "", "", FALSE, << >>, {},
                       FALSE, << >>)] }

\* an option of execute: left out, true or false
OptionValues == {"unset", "yes", "no"}

\* `const { option = true } = options`
OrTrue(option) == option # "no"

RECURSIVE LastSegment(_, _)
\* ref.split("/").pop(): what follows the last "/" of the first i characters
LastSegment(ref, i) ==
  IF i = 0 THEN ref
  ELSE IF SubSeq(ref, i, i) = "/" THEN SubSeq(ref, i + 1, Len(ref))
  ELSE LastSegment(ref, i - 1)

\* typeMap, and `|| "unknown"`
typeMap(type) ==
  CASE type = "string" -> "string"
    [] type = "number" -> "number"
    [] type = "integer" -> "number"
    [] type = "boolean" -> "boolean"
    [] type = "null" -> "null"
    [] OTHER -> "unknown"

\* getTypeFromSchema
getTypeFromSchema(schema) ==
  IF schema.ref # ""
    THEN (IF LastSegment(schema.ref, Len(schema.ref)) = "" THEN "any"
          ELSE LastSegment(schema.ref, Len(schema.ref)))
  ELSE IF schema.type = "array"
    THEN (IF schema.items # "" THEN typeMap(schema.items) ELSE "any") \o "[]"
  ELSE IF schema.type = "object"
    THEN (IF schema.hasProperties
            THEN "{ "
                   \o Join([i \in 1..Len(schema.properties) |->
                              schema.properties[i].name
                                \o (IF schema.properties[i].name \in schema.required
                                      THEN "" ELSE "?")
                                \o ": " \o typeMap(schema.properties[i].type)],
                           "; ")
                   \o " }"
          ELSE "Record<string, any>")
  ELSE typeMap(schema.type)

RECURSIVE propertyLines(_, _, _)
\* the property loop of generateTypeFromSchema, from property i on
propertyLines(schema, addComments, i) ==
  IF i > Len(schema.properties) THEN << >>
  ELSE LET prop == schema.properties[i]
           optional == IF prop.name \in schema.required THEN "" ELSE "?"
       IN (IF addComments /\ prop.schema.description # ""
             THEN << "  /** " \o prop.schema.description \o " */" >>
           ELSE << >>)
            \o << "  " \o prop.name \o optional \o ": "
                    \o getTypeFromSchema(prop.schema) \o ";" >>
            \o propertyLines(schema, addComments, i + 1)

\* a value of an enum as the declaration shows it
enumValue(v) == IF v.t = "string" THEN "\"" \o v.s \o "\"" ELSE ToString(v.n)

\* generateTypeFromSchema
generateTypeFromSchema(typeName, schema, useInterface, addComments, exportTypes) ==
  LET exportKeyword == IF exportTypes THEN "export " ELSE ""
      keyword == IF useInterface THEN "interface" ELSE "type"
  IN Join(
       (IF addComments /\ schema.description # ""
          THEN << "/**", " * " \o schema.description, " */" >>
        ELSE << >>)
         \o (IF schema.type = "object" /\ schema.hasProperties
               THEN << exportKeyword \o keyword \o " " \o typeName
                         \o (IF useInterface THEN " {" ELSE " = {") >>
                      \o propertyLines(schema, addComments, 1)
                      \o << IF useInterface THEN "}" ELSE "};" >>
             ELSE IF schema.hasEnum
               THEN << exportKeyword \o "type " \o typeName \o " = "
                         \o Join([i \in 1..Len(schema.enum) |->
                                    enumValue(schema.enum[i])], " | ")
                         \o ";" >>
             ELSE << exportKeyword \o keyword \o " " \o typeName \o " = "
                       \o getTypeFromSchema(schema) \o ";" >>),
       "\n")

RECURSIVE schemaLines(_, _, _, _, _, _)
\* the schema loop of execute, from entry i on
schemaLines(schemas, prefix, useInterface, addComments, exportTypes, i) ==
  IF i > Len(schemas) THEN << >>
  ELSE << generateTypeFromSchema(prefix \o schemas[i].name, schemas[i].schema,
                                 useInterface, addComments, exportTypes),
          "" >>
         \o schemaLines(schemas, prefix, useInterface, addComments, exportTypes,
                        i + 1)

\* BasicTypeGeneratorTool.execute({ schemas, options }) with an input that
\* satisfies the tool's schema: schemas are the entries of the object in key
\* order
execute(schemas, prefix, useInterface, addComments, exportTypes) ==
  /\ generated' =
       [called |-> TRUE, schemas |-> schemas, prefix |-> prefix,
        useInterface |-> useInterface, addComments |-> addComments,
        exportTypes |-> exportTypes, success |-> TRUE,
        code |->
          Join((IF OrTrue(addComments)
                  THEN << "/**", " * API type definitions",
                          " * generated, do not edit", " */", "" >>
                ELSE << >>)
                 \o schemaLines(schemas, prefix, OrTrue(useInterface),
                                OrTrue(addComments), OrTrue(exportTypes), 1),
               "\n"),
        typesCount |-> Len(schemas)]
  /\ UNCHANGED << maxIterations, maxHistoryRounds, conversationHistory, pc,
                  question, steps, totalTokens, iteration, request, response,
                  pending, result, exit, caught, cleared, usageSeen, llmCalls,
                  dispatches, toolExecs, saves, calls, runs, recorded, registry,
                  threw, returned, constructed, config, openai, observations,
                  inflight >>

\* the `schemas` objects: up to MaxSchemas entries under different names
SchemaObjects ==
  { << e >> : e \in SchemaPool }
    \cup { pair \in { << e, f >> : e \in SchemaPool, f \in SchemaPool } :
             pair[1].name # pair[2].name }

\* a program that holds the tool; the tool keeps nothing from one call to the
\* next, so one call from the initial state stands for every call
TypesInit ==
  /\ maxIterations = MaxIterations
  /\ maxHistoryRounds = MaxHistoryRounds
  /\ Fresh
  /\ Built

TypesNext ==
  \E schemas \in SchemaObjects, prefix \in {"", "I"},
     useInterface \in OptionValues, addComments \in OptionValues,
     exportTypes \in OptionValues :
    /\ ~generated.called
    /\ Len(schemas) <= MaxSchemas
    /\ execute(schemas, prefix, useInterface, addComments, exportTypes)

SpecTypes == TypesInit /\ [][TypesNext]_vars

\* the schema is declared by the object branch, the enum branch or as an alias
C34_IsObject(schema) == schema.type = "object" /\ schema.hasProperties
C34_IsEnum(schema) == ~C34_IsObject(schema) /\ schema.hasEnum
C34_IsAlias(schema) == ~C34_IsObject(schema) /\ ~schema.hasEnum

\* C34: for every schema kind and every combination of options the generated
\* declarations are syntactically valid: an object schema with properties is
\* `interface Name {` or `type Name = {`, an enum schema is declared with
\* `type`, every alias `Name = <type>` is declared with `type` and never as
\* `interface Name = ...`, and a property has no `?` exactly when the schema's
\* required list names it
C34_ValidDeclarations ==
  generated.called =>
    \A i \in 1..Len(generated.schemas) :
      LET schema == generated.schemas[i].schema
          name == generated.prefix \o generated.schemas[i].name
          code == generated.code
      IN /\ ~Contains(code, "interface " \o name \o " =")
         /\ C34_IsObject(schema) =>
              /\ \/ Contains(code, "interface " \o name \o " {\n")
                 \/ Contains(code, "type " \o name \o " = {\n")
              /\ \A k \in 1..Len(schema.properties) :
                   LET prop == schema.properties[k].name
                   IN IF prop \in schema.required
                        THEN /\ Contains(code, "\n  " \o prop \o ": ")
                             /\ ~Contains(code, "\n  " \o prop \o "?: ")
                      ELSE /\ Contains(code, "\n  " \o prop \o "?: ")
                           /\ ~Contains(code, "\n  " \o prop \o ": ")
         /\ C34_IsEnum(schema) =>
              /\ Contains(code, "type " \o name \o " = ")
              /\ ~Contains(code, "interface " \o name)
         /\ C34_IsAlias(schema) =>
              Contains(code, "type " \o name \o " = ")

\* C34's failing case: an array schema generated with the default options is
\* declared as `export interface Tags = string[];`
C34_Witness ==
  /\ generated.called
  /\ generated.useInterface = "unset"
  /\ \E i \in 1..Len(generated.schemas) : generated.schemas[i].name = "Tags"
  /\ Contains(generated.code, "export interface Tags = string[];")

\* -------------------------------------------- calls of run() that overlap
\* run() is an async function: it runs until its next await and leaves the
\* thread to the other calls while the promise it awaits is pending. A call of
\* run() is at the await of callLLM (line 130), at the await of executeTool
\* (line 192) or has returned; what lies between two awaits is one step.

\* what the model answers to the calls that overlap
OverlapResponses ==
  { [rejects |-> TRUE, error |-> "connection error", usage |-> JUndef,
     content |-> "none", obj |-> NoDecision] }
  \cup [rejects : {FALSE}, error : {""}, usage : {JNum(5)}, content : {"json"},
        obj : { [thought |-> JStr("think"), action |-> JStr("calculator"),
                 actionInput |-> JNum(1), finalAnswer |-> JNull],
                [thought |-> JStr("think"), action |-> JStr("ghost"),
                 actionInput |-> JNull, finalAnswer |-> JNull],
                [thought |-> JStr("think"), action |-> JNull,
                 actionInput |-> JNull, finalAnswer |-> JStr("done")] }]

\* what tool.execute resolves with in the calls that overlap
OverlapOutcomes ==
  { [throws |-> FALSE, message |-> "",
     result |-> [success |-> TRUE, data |-> JNum(4), error |-> JUndef]],
    [throws |-> TRUE, message |-> "boom", result |-> NoResult] }

\* a run() whose step list is a field of the agent: every call reads the list
\* of the first
stepsShared(calls_, id) == calls_[1].steps

\* `steps`, the local of call id (line 105)
stepsOf(calls_, id) == calls_[id].steps

\* the return statements of run in call id: saveConversation, then the result
overlapReturn(id, answer, stps, tokens, how, thoughtAction, produced, counted) ==
  /\ conversationHistory' =
       saveConversation(conversationHistory, inflight[id].question, answer, stps,
                        maxHistoryRounds)
  /\ inflight' =
       [inflight EXCEPT ![id] =
          [@ EXCEPT !.pc = "returned", !.steps = stps, !.totalTokens = tokens,
                    !.pending = thoughtAction, !.exit = how, !.own = produced,
                    !.usage = counted,
                    !.result = [status |-> "fulfilled", answer |-> answer,
                                steps |-> stps, totalTokens |-> tokens]]]

\* run(q) is called while other calls may be in flight: the locals, the entry
\* of the loop and the first model call
overlapStart(id, q) ==
  /\ inflight[id].pc = "idle"
  /\ inflight' =
       [inflight EXCEPT ![id] =
          [NoRun EXCEPT !.pc = "callLLM", !.question = q,
                        !.request = callLLM(conversationHistory, q, << >>)]]
  /\ UNCHANGED conversationHistory

\* the model call of call id settles: the rest of its try block up to a return
\* or the call of executeTool
overlapLLMSettles(id, resp) ==
  /\ inflight[id].pc = "callLLM"
  /\ LET run_ == inflight[id]
         o == tryCatch(resp, stepsOf(inflight, id), run_.totalTokens)
         counted == run_.usage
                      + (IF ~resp.rejects /\ resp.usage.t = "number"
                           THEN resp.usage.n ELSE 0)
         produced == IF o.exit = "final"
                       THEN Append(run_.own,
                                   [thought |-> o.thoughtAction.thought.s,
                                    action |-> JUndef, actionInput |-> JUndef,
                                    observation |-> JUndef])
                     ELSE run_.own
     IN IF o.tag = "dispatch"
          THEN /\ inflight' =
                    [inflight EXCEPT ![id] =
                       [@ EXCEPT !.pc = "executeTool", !.totalTokens = o.tokens,
                                 !.pending = o.thoughtAction, !.usage = counted]]
               /\ UNCHANGED conversationHistory
        ELSE overlapReturn(id, o.answer, o.steps, o.tokens, o.exit, o.thoughtAction,
                           produced, counted)

\* executeTool of call id settles: the step is pushed and the loop goes round
\* to the next model call or, the budget exhausted, to the return after it
overlapToolSettles(id, outcome) ==
  /\ inflight[id].pc = "executeTool"
  /\ LET run_ == inflight[id]
         step == [thought |-> run_.pending.thought.s,
                  action |-> run_.pending.action,
                  actionInput |-> run_.pending.actionInput,
                  observation |->
                    JStr(executeTool(String(run_.pending.action), outcome))]
         stps == Append(stepsOf(inflight, id), step)
         produced == Append(run_.own, step)
     IN IF loopContinues(run_.iteration + 1, maxIterations)
          THEN /\ inflight' =
                    [inflight EXCEPT ![id] =
                       [@ EXCEPT !.pc = "callLLM", !.steps = stps,
                                 !.own = produced,
                                 !.iteration = run_.iteration + 1,
                                 !.request = callLLM(conversationHistory,
                                                     run_.question, stps)]]
               /\ UNCHANGED conversationHistory
        ELSE overlapReturn(id, budgetAnswer, stps, run_.totalTokens, "budget",
                           run_.pending, produced, run_.usage)

\* an agent of MaxIterations iterations on which no call has been made
OverlapInit ==
  /\ maxIterations = MaxIterations
  /\ maxHistoryRounds = MaxHistoryRounds
  /\ Fresh
  /\ Built

OverlapNext ==
  /\ \E id \in OverlapIds :
       \/ \E q \in Questions : overlapStart(id, q)
       \/ \E resp \in OverlapResponses : overlapLLMSettles(id, resp)
       \/ \E outcome \in OverlapOutcomes : overlapToolSettles(id, outcome)
  /\ UNCHANGED << maxIterations, maxHistoryRounds, pc, question, steps,
                  totalTokens, iteration, request, response, pending, result,
                  exit, caught, cleared, usageSeen, llmCalls, dispatches,
                  toolExecs, saves, calls, runs, recorded, registry, threw,
                  returned, constructed, config, openai, observations, generated >>

SpecOverlap == OverlapInit /\ [][OverlapNext]_vars

\* call id returns in this step
C35_Returns(id) == inflight[id].pc # "returned" /\ inflight'[id].pc = "returned"

\* the two messages of the record of call id, as it returned
C35_Record(id) ==
  << [role |-> "user", content |-> inflight'[id].question],
     [role |-> "assistant",
      content |-> assistantMessage(inflight'[id].result.answer,
                                   inflight'[id].result.steps)] >>

\* C35: when calls of run() overlap, the record of each is atomic: the history
\* changes only in the step in which a call returns, and in that step the user
\* message and the assistant message of that call are appended next to each
\* other to the history as the step found it and the compression they trigger
\* is completed, so that no message of the other call comes in between
C35_RecordIsAtomic ==
  [][(\A id \in OverlapIds :
        C35_Returns(id) =>
          /\ conversationHistory'
               = compressHistoryIfNeeded(conversationHistory \o C35_Record(id),
                                         maxHistoryRounds)
          /\ \A other \in OverlapIds \ {id} : inflight'[other] = inflight[other])
       /\ ((\A id \in OverlapIds : ~C35_Returns(id)) =>
             conversationHistory' = conversationHistory)]_vars

\* C35's case: two calls that overlapped from their first model call to their
\* last have both returned after a tool execution each, and the second record
\* has triggered a compression
C35_Witness ==
  /\ \A id \in OverlapIds :
       /\ inflight[id].pc = "returned"
       /\ Len(inflight[id].request) = 2
       /\ Len(inflight[id].steps) >= 2
       /\ inflight[id].exit = "final"
  /\ inflight[1].question # inflight[2].question
  /\ Len(conversationHistory) = 3
  /\ Contains(conversationHistory[1].content, "early rounds (1 cut)")
  /\ conversationHistory[2].content \in {"q1", "q2"}


\* the model call of call id settles in this step
C36_Decides(id) == inflight[id].pc = "callLLM" /\ inflight'[id] # inflight[id]

\* the locals of every call hold what its own iterations produced, and what it
\* sends and returns is rendered from them
C36_Private ==
  \A id \in OverlapIds :
    LET run_ == inflight[id]
    IN /\ run_.steps = run_.own
       /\ run_.totalTokens = run_.usage
       /\ run_.pc = "callLLM" =>
            run_.request[Len(run_.request)]
              = [role |-> "user",
                 content |-> generateUserMessage(run_.question, run_.own)]
       /\ run_.pc = "returned" =>
            /\ run_.result.steps = run_.own
            /\ run_.result.totalTokens = run_.usage

\* C36: the step list and the cost counter are private to one call of run():
\* when calls overlap, the steps rendered into a call's model requests, stored
\* in its assistant message and returned in its result are the steps of its own
\* iterations, a step of one call leaves the steps and the counter of the
\* others alone, and the repetition guard trips exactly when the call's own
\* last two steps carry the proposal
C36_StepsArePrivate ==
  /\ []C36_Private
  /\ [][\A id \in OverlapIds :
          /\ inflight'[id] # inflight[id] =>
               \A other \in OverlapIds \ {id} :
                 /\ inflight'[other].steps = inflight[other].steps
                 /\ inflight'[other].totalTokens = inflight[other].totalTokens
          /\ C35_Returns(id) =>
               conversationHistory'[Len(conversationHistory')]
                 = [role |-> "assistant",
                    content |-> assistantMessage(inflight'[id].result.answer,
                                                 inflight'[id].own)]
          /\ C36_Decides(id) =>
               ((inflight'[id].exit = "repetition")
                  <=> /\ hasAction(inflight'[id].pending)
                      /\ ~hasFinalAnswer(inflight'[id].pending)
                      /\ isRepetition(inflight[id].own, inflight'[id].pending))]_vars

\* C36's case: the first call has left by the repetition exit after two
\* calculator steps while the second, whose requests were all sent before the
\* first recorded, waits for the model with a single step of another tool
C36_Witness ==
  /\ inflight[1].exit = "repetition"
  /\ Len(inflight[1].own) = 2
  /\ inflight[1].own[1].action = JStr("calculator")
  /\ inflight[2].pc = "callLLM"
  /\ Len(inflight[2].request) = 2
  /\ Len(inflight[2].own) = 1
  /\ inflight[2].own[1].action = JStr("ghost")
  /\ inflight[1].totalTokens = 15
  /\ inflight[2].totalTokens = 5


\* clearHistory was called and nothing was recorded since, and a run is
\* suspended on its model call or on its tool execution
C37_ClearedInFlight == cleared /\ pc \in {"callLLM", "executeTool"}

\* C37: after clearHistory() was called while a run is in flight, every later
\* model request of the run is the system prompt and the user message with no
\* history between them, and the run still records when it ends: once it has
\* returned, the history is that run's user message and its assistant message
\* and nothing else
C37_ClearedRunRecordsAlone ==
  [][C37_ClearedInFlight =>
       /\ llmCalls' = llmCalls + 1 =>
            request'
              = << [role |-> "system",
                    content |-> generateSystemPrompt(getDescriptions, getNames)],
                   [role |-> "user",
                    content |-> generateUserMessage(question, steps')] >>
       /\ pc' = "returned" =>
            /\ result'.status = "fulfilled"
            /\ conversationHistory'
                 = << [role |-> "user", content |-> question],
                      [role |-> "assistant",
                       content |-> assistantMessage(result'.answer,
                                                    result'.steps)] >>]_vars

\* C37's case: the second run sent its last request with the first run's
\* exchange in it, the history was cleared while it was suspended, and it has
\* returned: the history is its own exchange
C37_Witness ==
  /\ pc = "returned"
  /\ runs = 2
  /\ exit = "final"
  /\ Len(steps) = 1
  /\ Len(request) = 4
  /\ request[2].role = "user"
  /\ Len(conversationHistory) = 2
  /\ conversationHistory[1] = [role |-> "user", content |-> question]
  /\ conversationHistory[2]
       = [role |-> "assistant", content |-> assistantMessage(result.answer, steps)]


\* the step records an exchange and the compression fires
C38_Fires == C24_Records /\ conversationHistory' # C24_Pushed

\* C38: in every reachable history at most one synthetic summary message is
\* stored and, if there is one, it is the first message; every compression
\* that fires takes the summary message it finds into the prefix it compresses,
\* so that the new summary has an entry made of the old one, and leaves a
\* history strictly shorter than the one it found
C38_OneSummaryInFront ==
  /\ [](\A k \in 1..Len(conversationHistory) :
          C11_IsSummary(conversationHistory[k]) => k = 1)
  /\ [][C38_Fires =>
          /\ Len(conversationHistory') < Len(C24_Pushed)
          /\ C11_IsSummary(conversationHistory'[1])
          /\ (Len(conversationHistory) >= 1
                /\ C11_IsSummary(conversationHistory[1])) =>
               /\ C24_toCompressCount(Len(C24_Pushed)) >= 2
               /\ conversationHistory'[1].content
                    = generateHistorySummary(
                        SubSeq(C24_Pushed, 1, C24_toCompressCount(Len(C24_Pushed))),
                        C24_toCompressCount(Len(C24_Pushed)) \div 2)
               /\ Contains(conversationHistory'[1].content,
                           "# 1 r - Q: "
                             \o Truncate(conversationHistory[1].content, 80)
                             \o "\n")
               /\ \A k \in 1..Len(conversationHistory') :
                    conversationHistory'[k] # conversationHistory[1]]_vars

\* C38's case: under a bound of 2 rounds the fifth record has fired the third
\* compression: the summary in front carries the one before it in its first
\* entry and no other message is a summary
C38_Witness ==
  /\ maxHistoryRounds = 2
  /\ recorded = 5
  /\ Len(conversationHistory) = 3
  /\ C11_IsSummary(conversationHistory[1])
  /\ Contains(conversationHistory[1].content, "# 1 r - Q: early rounds (")
  /\ ~C11_IsSummary(conversationHistory[2])
  /\ ~C11_IsSummary(conversationHistory[3])


\* what tool.execute resolves with when the tool fails
C39_FailingOutcomes == { o \in ToolOutcomes : o.throws \/ ~o.result.success }

\* the observation of step i is a failure: the tool is not registered, or its
\* execution threw or returned success: false
C39_FailedStep(i) ==
  /\ i \in 1..Len(steps)
  /\ \/ /\ ~registryHas(String(steps[i].action))
        /\ steps[i].observation
             = JStr(formatObservation(
                      String(steps[i].action), FALSE, JUndef,
                      JStr("tool \"" \o String(steps[i].action)
                             \o "\" does not exist. available tools: "
                             \o Join(getNames, ", "))))
     \/ /\ registryHas(String(steps[i].action))
        /\ \E o \in C39_FailingOutcomes :
             steps[i].observation
               = JStr(formatObservation(
                        String(steps[i].action), FALSE, JUndef,
                        IF o.throws THEN JStr(o.message) ELSE o.result.error))

\* C39: the repetition guard counts the steps whose observation is a failure
\* like any other: a proposal that has the action and the serialized input of
\* the last two steps, both of them failures of an unregistered or of a failing
\* tool, ends the run with the repetition answer, which quotes the second
\* failure; the tool is not called a third time and no third observation is
\* made
C39_FailuresCountAsProposals ==
  (/\ C28_Proposal
   /\ Len(steps) >= 2
   /\ C28_Same(Len(steps))
   /\ C28_Same(Len(steps) - 1)
   /\ C39_FailedStep(Len(steps))
   /\ C39_FailedStep(Len(steps) - 1))
    => /\ pc = "returned"
       /\ exit = "repetition"
       /\ result.status = "fulfilled"
       /\ result.answer = repetitionAnswer(steps)
       /\ Contains(result.answer, String(steps[Len(steps)].observation))
       /\ result.steps = steps
       /\ dispatches = Len(steps)
       /\ llmCalls = Len(steps) + 1

\* C39's case: the model has proposed the unregistered tool three times in a
\* row; two unknown-tool observations were made and the run has ended on the
\* third proposal with the repetition answer, no tool having been executed
C39_Witness ==
  /\ C28_Proposal
  /\ response.obj.action = JStr("ghost")
  /\ Len(steps) = 2
  /\ C28_Same(1) /\ C28_Same(2)
  /\ C39_FailedStep(1) /\ C39_FailedStep(2)
  /\ Contains(String(steps[2].observation), "does not exist")
  /\ pc = "returned"
  /\ exit = "repetition"
  /\ dispatches = 2
  /\ toolExecs = 0
  /\ llmCalls = 3

\* the same with a registered tool whose execution fails: two executions, two
\* failure observations, and the repetition answer on the third proposal
C39_WitnessFailingTool ==
  /\ C28_Proposal
  /\ response.obj.action = JStr("calculator")
  /\ Len(steps) = 2
  /\ C28_Same(1) /\ C28_Same(2)
  /\ C39_FailedStep(1) /\ C39_FailedStep(2)
  /\ pc = "returned"
  /\ exit = "repetition"
  /\ toolExecs = 2

=============================================================================
